---------------------------- MODULE Spec2Model ----------------------------
(***************************************************************************)
(* A model of the browsable-object gateway (browsableRequest, checkAuth,   *)
(* the raw-query and studio routes) as a state machine over one request.   *)
(*                                                                         *)
(* Text that the code inspects character by character (the Authorization   *)
(* header, the credentials) is a sequence of character codes; text that    *)
(* the code only passes along (statements, messages) is a TLA+ string.     *)
(***************************************************************************)
EXTENDS Integers, Sequences, FiniteSets, TLC

VARIABLES
    options,     \* BrowsableOptions, fixed at construction
    request,     \* the request being handled
    pc,          \* position of browsableRequest
    response,    \* what browsableRequest returned (or that it threw)
    authResult,  \* what checkAuth returned for this request, if called
    bodyRead,    \* whether request.json() has been awaited
    validated,   \* statements handed to options.validator, in order
    queue,       \* statements the running batch still has to execute
    results,     \* result items collected by the running batch
    execLog,     \* statements handed to the execution adapter, in order
    db,          \* rows written to the engine so far
    awaited,     \* the cursor whose rows the running batch is awaiting
    concurrent,  \* rows written by other requests while this one runs
    remote,      \* a RemoteSqlStorageCursor, its calls in flight and returns
    runs,        \* the earlier runs of the request: engine state and response
    host         \* what received the request: browsableRequest called as a
                 \* function, a handler class, or the studio() helper

vars == <<options, request, pc, response, authResult, bodyRead, validated,
          queue, results, execLog, db, awaited, concurrent, remote, runs, host>>

\* the variables of one call of browsableRequest
gatewayVars == <<options, request, pc, response, authResult, bodyRead,
                 validated, queue, results, execLog, db, awaited, concurrent>>

-----------------------------------------------------------------------------
(* Bounds *)

\* longest configured username / password explored under SpecAuth
MaxCredLen == 2

\* longest batch (transaction / statements array) explored
MaxBatch == 2

\* longest batch explored under SpecBatch
MaxLongBatch == 3

\* most statements other requests execute while the batch runs
MaxConcurrent == 2

-----------------------------------------------------------------------------
(* JavaScript values *)

\* null / undefined, where the code handles a character sequence
Undefined == <<-1>>

\* undefined, where the code handles a statement or a message
NoText == "undefined"

ColonChar == 58

SpaceChar == 32

\* "Basic "
BasicPrefix == <<66, 97, 115, 105, 99, 32>>

\* String.prototype.startsWith
StartsWith(s, prefix) ==
    /\ Len(s) >= Len(prefix)
    /\ SubSeq(s, 1, Len(prefix)) = prefix

\* index of the first occurrence of sep in s at or after position i, else 0
RECURSIVE IndexFrom(_, _, _)
IndexFrom(s, sep, i) ==
    IF i > Len(s) THEN 0
    ELSE IF s[i] = sep THEN i
    ELSE IndexFrom(s, sep, i + 1)

\* String.prototype.split with a one-character separator: every piece
RECURSIVE Split(_, _)
Split(s, sep) ==
    LET k == IndexFrom(s, sep, 1)
    IN  IF k = 0 THEN <<s>>
        ELSE <<SubSeq(s, 1, k - 1)>> \o Split(SubSeq(s, k + 1, Len(s)), sep)

\* element i of a JavaScript array (1-based here), undefined past its end
At(arr, i) == IF i <= Len(arr) THEN arr[i] ELSE Undefined

-----------------------------------------------------------------------------
(* base64 *)

\* the character of a 6-bit value
B64Char(v) ==
    IF v < 26 THEN 65 + v
    ELSE IF v < 52 THEN 97 + (v - 26)
    ELSE IF v < 62 THEN 48 + (v - 52)
    ELSE IF v = 62 THEN 43
    ELSE 47

\* the 6-bit value of a character, -1 when it is no base64 character
B64Val(c) ==
    IF c >= 65 /\ c <= 90 THEN c - 65
    ELSE IF c >= 97 /\ c <= 122 THEN c - 97 + 26
    ELSE IF c >= 48 /\ c <= 57 THEN c - 48 + 52
    ELSE IF c = 43 THEN 62
    ELSE IF c = 47 THEN 63
    ELSE -1

\* btoa: the client's encoding of the credentials
RECURSIVE Btoa(_)
Btoa(bytes) ==
    IF Len(bytes) = 0 THEN <<>>
    ELSE IF Len(bytes) = 1 THEN
        <<B64Char(bytes[1] \div 4), B64Char((bytes[1] % 4) * 16), 61, 61>>
    ELSE IF Len(bytes) = 2 THEN
        <<B64Char(bytes[1] \div 4),
          B64Char((bytes[1] % 4) * 16 + bytes[2] \div 16),
          B64Char((bytes[2] % 16) * 4), 61>>
    ELSE
        <<B64Char(bytes[1] \div 4),
          B64Char((bytes[1] % 4) * 16 + bytes[2] \div 16),
          B64Char((bytes[2] % 16) * 4 + bytes[3] \div 64),
          B64Char(bytes[3] % 64)>> \o Btoa(SubSeq(bytes, 4, Len(bytes)))

\* atob, step 2: drop one or two trailing '=' of a text whose length is a
\* multiple of four
StripPadding(s) ==
    IF Len(s) > 0 /\ Len(s) % 4 = 0 /\ s[Len(s)] = 61
    THEN IF s[Len(s) - 1] = 61 THEN SubSeq(s, 1, Len(s) - 2)
         ELSE SubSeq(s, 1, Len(s) - 1)
    ELSE s

\* atob, step 5: the bytes of a padding-free base64 text
RECURSIVE DecodeSextets(_)
DecodeSextets(s) ==
    IF Len(s) = 0 THEN <<>>
    ELSE IF Len(s) = 2 THEN
        <<B64Val(s[1]) * 4 + B64Val(s[2]) \div 16>>
    ELSE IF Len(s) = 3 THEN
        <<B64Val(s[1]) * 4 + B64Val(s[2]) \div 16,
          (B64Val(s[2]) % 16) * 16 + B64Val(s[3]) \div 4>>
    ELSE
        <<B64Val(s[1]) * 4 + B64Val(s[2]) \div 16,
          (B64Val(s[2]) % 16) * 16 + B64Val(s[3]) \div 4,
          (B64Val(s[3]) % 4) * 64 + B64Val(s[4])>>
        \o DecodeSextets(SubSeq(s, 5, Len(s)))

\* atob, step 1: ASCII whitespace (tab, LF, FF, CR, space) is removed
IsNoWhitespace(c) == c \notin {9, 10, 12, 13, 32}

\* whether atob throws InvalidCharacterError on this text
AtobThrows(s) ==
    LET t == StripPadding(SelectSeq(s, IsNoWhitespace))
    IN  \/ Len(t) % 4 = 1
        \/ \E i \in 1..Len(t) : B64Val(t[i]) = -1

\* atob of a text it accepts
Atob(s) == DecodeSextets(StripPadding(SelectSeq(s, IsNoWhitespace)))

-----------------------------------------------------------------------------
(* Responses *)

corsHeaders ==
    ("Access-Control-Allow-Origin" :> "*")
    @@ ("Access-Control-Allow-Methods" :> "GET, POST, PATCH, PUT, DELETE, OPTIONS")
    @@ ("Access-Control-Allow-Headers" :>
            "Authorization, Content-Type, X-Starbase-Source, X-Data-Source")
    @@ ("Access-Control-Max-Age" :> "86400")

\* new Response(body, {status, headers})
Response(status, headers, body) ==
    [kind |-> "response", status |-> status, headers |-> headers, body |-> body]

\* the value null returned in place of a Response
NullSentinel == [kind |-> "null"]

\* the call ended in an exception
Threw(error) == [kind |-> "threw", error |-> error]

\* the value an RPC method returned
Returned(value) == [kind |-> "returned", value |-> value]

\* no value yet
Pending == [kind |-> "pending"]

TextBody(text) == [type |-> "text", text |-> text]

EmptyBody == [type |-> "empty"]

HtmlBody == [type |-> "html", page |-> "createStudioInterface"]

\* JSON values of an envelope
JNull == [t |-> "null"]

JUndefined == [t |-> "undefined"]

JString(msg) == [t |-> "string", v |-> msg]

JValue(v) == [t |-> "value", v |-> v]

\* JSON.stringify of an object: a key whose value is undefined is left out
JsonBody(obj) ==
    [type |-> "json",
     json |-> [k \in {k \in DOMAIN obj : obj[k] # JUndefined} |-> obj[k]]]

jsonContentType == "Content-Type" :> "application/json"

\* a createResponse that leaves the result out of the envelope
createResponseDropsResult(result, error, status) ==
    Response(status, jsonContentType @@ corsHeaders,
             JsonBody([result |-> JNull, error |-> error]))

createResponse(result, error, status) ==
    Response(status, jsonContentType @@ corsHeaders,
             JsonBody([result |-> result, error |-> error]))

\* Response.json(obj): status 200, a JSON content type, no CORS headers
ResponseJson(obj) == Response(200, jsonContentType, JsonBody(obj))

-----------------------------------------------------------------------------
(* Auth gate *)

challengeHeader == "WWW-Authenticate" :> "Basic realm=\"Secure Area\""

MisconfiguredResponse ==
    Response(500, corsHeaders,
             TextBody("Authentication configuration missing. Please pass 'basicAuth' to your Browsable."))

\* the challenge sent without its WWW-Authenticate header
AuthRequiredResponseWithoutChallenge ==
    Response(401, corsHeaders, TextBody("Authentication required"))

AuthRequiredResponse ==
    Response(401, challengeHeader @@ corsHeaders,
             TextBody("Authentication required"))

\* the rejection sent without the WWW-Authenticate header
InvalidCredentialsResponseWithoutChallenge ==
    Response(401, corsHeaders, TextBody("Invalid credentials"))

InvalidCredentialsResponse ==
    Response(401, challengeHeader @@ corsHeaders,
             TextBody("Invalid credentials"))

\* !authHeader: the header is absent, or present and empty
Falsy(authHeader) == authHeader = Undefined \/ authHeader = <<>>

\* the comparison of the decoded credentials with the configured ones
CredentialsMismatch(decoded, basicAuth) ==
    LET parts == Split(decoded, ColonChar)
        username == At(parts, 1)
        password == At(parts, 2)
    IN  \/ username # basicAuth.username
        \/ password # basicAuth.password

\* checkAuth from the read of the Authorization header on
checkCredentials(req, opts) ==
    IF Falsy(req.authorization) \/ ~StartsWith(req.authorization, BasicPrefix)
    THEN AuthRequiredResponse
    ELSE LET encoded == At(Split(req.authorization, SpaceChar), 2)
         IN  IF AtobThrows(encoded) THEN Threw(<<"InvalidCharacterError">>)
             ELSE IF CredentialsMismatch(Atob(encoded), opts.basicAuth)
                  THEN InvalidCredentialsResponse
             ELSE NullSentinel

\* an auth gate that lets every request pass when no credentials are configured
checkAuthFailsOpen(req, opts) ==
    IF opts.dangerouslyDisableAuth THEN NullSentinel
    ELSE IF ~opts.basicAuth.configured THEN NullSentinel
    ELSE checkCredentials(req, opts)

\* an auth gate that does not look at dangerouslyDisableAuth
checkAuthIgnoresDisable(req, opts) ==
    IF ~opts.basicAuth.configured THEN MisconfiguredResponse
    ELSE checkCredentials(req, opts)

checkAuth(req, opts) ==
    IF opts.dangerouslyDisableAuth THEN NullSentinel
    ELSE IF ~opts.basicAuth.configured THEN MisconfiguredResponse
    ELSE checkCredentials(req, opts)

-----------------------------------------------------------------------------
(* Validator and execution adapter *)

\* the statement texts explored: the empty statement, a read, a write, and
\* a statement the engine rejects
Statements == {"", "SELECT 1", "INSERT INTO t VALUES (1)", "SELEC"}

\* JavaScript truthiness of a statement text
Truthy(sql) == sql # NoText /\ sql # ""

\* options.validator(sql): a validator is the set of texts it rejects, with
\* the error text it gives
validator(opts, sql) ==
    IF sql \in opts.validator.rejects
    THEN [isValid |-> FALSE, error |-> opts.validator.error]
    ELSE [isValid |-> TRUE, error |-> NoText]

\* the validator's error text alone
InvalidQueryMessageVerbatim(validation) == <<validation.error>>

\* `Invalid query: ${validation.error}`
InvalidQueryMessage(validation) == <<"Invalid query: ", validation.error>>

\* the engine behind the execution adapter: exec(sql) on an engine holding
\* d written rows either throws or returns a cursor
exec(sql, d) ==
    IF sql = "SELECT 1" THEN
        [threw |-> FALSE, error |-> <<>>, db |-> d,
         cursor |-> [columnNames |-> <<"1">>, rows |-> << <<1>> >>,
                     rowsRead |-> 1, rowsWritten |-> 0]]
    ELSE IF sql = "INSERT INTO t VALUES (1)" THEN
        [threw |-> FALSE, error |-> <<>>, db |-> d + 1,
         cursor |-> [columnNames |-> <<>>, rows |-> <<>>,
                     rowsRead |-> 0, rowsWritten |-> 1]]
    ELSE IF sql = "" THEN
        [threw |-> FALSE, error |-> <<>>, db |-> d,
         cursor |-> [columnNames |-> <<>>, rows |-> <<>>,
                     rowsRead |-> 0, rowsWritten |-> 0]]
    ELSE IF sql = "SELECT COUNT(*) FROM t" THEN
        [threw |-> FALSE, error |-> <<>>, db |-> d,
         cursor |-> [columnNames |-> <<"COUNT(*)">>, rows |-> << <<d>> >>,
                     rowsRead |-> d, rowsWritten |-> 0]]
    ELSE IF sql = "SELECT rowid FROM t" THEN
        [threw |-> FALSE, error |-> <<>>, db |-> d,
         cursor |-> [columnNames |-> <<"rowid">>,
                     rows |-> [i \in 1..d |-> <<i>>],
                     rowsRead |-> d, rowsWritten |-> 0]]
    ELSE IF sql = "SELECT 1 AS x, 2" THEN
        [threw |-> FALSE, error |-> <<>>, db |-> d,
         cursor |-> [columnNames |-> <<"x", "2">>, rows |-> << <<1, 2>> >>,
                     rowsRead |-> 0, rowsWritten |-> 0]]
    ELSE IF sql = "SELECT 1 AS id, 2 AS id" THEN
        [threw |-> FALSE, error |-> <<>>, db |-> d,
         cursor |-> [columnNames |-> <<"id", "id">>, rows |-> << <<1, 2>> >>,
                     rowsRead |-> 0, rowsWritten |-> 0]]
    ELSE
        [threw |-> TRUE, error |-> <<"SqliteError: ", sql>>, db |-> d,
         cursor |-> [columnNames |-> <<>>, rows |-> <<>>,
                     rowsRead |-> 0, rowsWritten |-> 0]]

\* the rows the statements write, when each of them runs
RECURSIVE Written(_)
Written(stmts) ==
    IF stmts = <<>> THEN 0
    ELSE exec(Head(stmts), 0).db + Written(Tail(stmts))

\* no cursor is being awaited
NoCursor == [open |-> FALSE]

\* executeQuery with isRaw: the {columns, rows, meta} item of a cursor
executeQuery(cursor) ==
    [columns |-> cursor.columnNames,
     rows |-> cursor.rows,
     meta |-> [rows_read |-> cursor.rowsRead,
               rows_written |-> cursor.rowsWritten]]

\* the name a studio column gets: the loop tries the column's own name, then
\* "__" + name + "_" + i, while columnSet holds the candidate
RECURSIVE renameColName(_, _, _, _)
renameColName(colName, candidate, i, columnSet) ==
    IF i >= 20 \/ candidate \notin columnSet THEN candidate
    ELSE renameColName(colName, <<"__", colName, "_", i>>, i + 1, columnSet)

\* executeQueryForStudio: the {headers, rows, stat} item of a cursor; nothing
\* is ever added to columnSet
executeQueryForStudio(cursor) ==
    LET columnSet == {}
        columnNames ==
            [i \in 1..Len(cursor.columnNames) |->
                [name |-> renameColName(cursor.columnNames[i],
                                        <<cursor.columnNames[i]>>, 0, columnSet),
                 displayName |-> cursor.columnNames[i],
                 originalType |-> "text"]]
    IN  [headers |-> columnNames,
         rows |-> [r \in 1..Len(cursor.rows) |->
                     [n \in {columnNames[i].name : i \in 1..Len(columnNames)} |->
                        LET last == CHOOSE i \in 1..Len(columnNames) :
                                /\ columnNames[i].name = n
                                /\ \A j \in 1..Len(columnNames) :
                                       columnNames[j].name = n => j <= i
                        IN  cursor.rows[r][last]]],
         stat |-> [queryDurationMs |-> 0, rowsAffected |-> 0,
                   rowsRead |-> cursor.rowsRead,
                   rowsWritten |-> cursor.rowsWritten]]

-----------------------------------------------------------------------------
(* Routing *)

\* the path's segments end with the route's segments: pathname.endsWith(route)
\* for a pathname "/" + segments joined by "/"
EndsWith(path, route) ==
    /\ Len(path) >= Len(route)
    /\ SubSeq(path, Len(path) - Len(route) + 1, Len(path)) = route

queryRawRoute == <<"query", "raw">>

studioRoute == <<"studio">>

supportedRouteSuffixes == {queryRawRoute, studioRoute}

\* a route check by pathname.includes(route) in place of endsWith
isSupportedIncludes(path) ==
    \E route \in supportedRouteSuffixes :
        \E i \in 1..Len(path) :
            /\ i + Len(route) - 1 <= Len(path)
            /\ SubSeq(path, i, i + Len(route) - 1) = route

isSupported(path) == \E route \in supportedRouteSuffixes : EndsWith(path, route)

-----------------------------------------------------------------------------
(* Options *)

NoBasicAuth == [configured |-> FALSE, username |-> <<>>, password |-> <<>>]

BasicAuth(username, password) ==
    [configured |-> TRUE, username |-> username, password |-> password]

NoValidator == [configured |-> FALSE, rejects |-> {}, error |-> NoText]

Validator(rejects) == [configured |-> TRUE, rejects |-> rejects, error |-> "E"]

\* options = {}: the default of browsableRequest's third parameter
defaultOptions ==
    [dangerouslyDisableAuth |-> FALSE, basicAuth |-> NoBasicAuth,
     disableStudio |-> FALSE, validator |-> NoValidator]

\* every character sequence over alphabet of length at most n
Texts(alphabet, n) == UNION {[1..k -> alphabet] : k \in 0..n}

\* "a":"b"
adminAuth == BasicAuth(<<97>>, <<98>>)

\* no validator; one that rejects nothing; a read-only one; an allow-list of
\* SELECT statements (which rejects the empty statement too)
Validators ==
    {NoValidator, Validator({}), Validator({"INSERT INTO t VALUES (1)"}),
     Validator(Statements \ {"SELECT 1"})}

GatewayOptions ==
    [dangerouslyDisableAuth : BOOLEAN, basicAuth : {NoBasicAuth, adminAuth},
     disableStudio : BOOLEAN, validator : Validators]

\* the auth gate's options: user names without ':', passwords with
AuthOptions ==
    [dangerouslyDisableAuth : BOOLEAN,
     basicAuth : {NoBasicAuth} \cup
                 {BasicAuth(u, p) : u \in Texts({97}, MaxCredLen),
                                    p \in Texts({97, ColonChar}, MaxCredLen)},
     disableStudio : {FALSE}, validator : {NoValidator}]

-----------------------------------------------------------------------------
(* Requests *)

\* `Basic ${btoa(decoded)}`
BasicHeader(decoded) == BasicPrefix \o Btoa(decoded)

\* `Basic ${btoa(username + ":" + password)}`
CredentialsHeader(basicAuth) ==
    BasicHeader(basicAuth.username \o <<ColonChar>> \o basicAuth.password)

\* "Basic" alone (a header value carries no trailing space)
BasicNoPayload == <<66, 97, 115, 105, 99>>

\* "Bearer YTpi"
BearerHeader == <<66, 101, 97, 114, 101, 114, 32, 89, 84, 112, 105>>

\* "basic YTpi"
LowerCaseSchemeHeader == <<98, 97, 115, 105, 99, 32, 89, 84, 112, 105>>

\* "Basic !!!!"
NotBase64Header == BasicPrefix \o <<33, 33, 33, 33>>

\* "Basic Y": one base64 character, which is no complete group
ShortBase64Header == BasicPrefix \o <<89>>

\* a header whose decoded payload has no ':'
NoColonHeader == BasicHeader(<<97, 98>>)

\* hasTransaction: the transaction field is an array, given in transaction;
\* transactionScalar: the transaction field is false or "" instead ("none"
\* when it is not)
NoBody ==
    [json |-> FALSE, sql |-> NoText, hasTransaction |-> FALSE,
     transaction |-> <<>>, transactionScalar |-> "none", type |-> NoText,
     statement |-> NoText, statements |-> <<>>]

\* {sql}
SqlBody(sql) == [NoBody EXCEPT !.json = TRUE, !.sql = sql]

\* {transaction: [{sql}, ...]}, with or without an sql field beside it
TransactionBody(sql, transaction) ==
    [NoBody EXCEPT !.json = TRUE, !.sql = sql, !.hasTransaction = TRUE,
                   !.transaction = transaction]

\* {sql, transaction: false} and {sql, transaction: ""}: a transaction field
\* that is falsy and not null
ScalarTransactionBody(sql, scalar) ==
    [NoBody EXCEPT !.json = TRUE, !.sql = sql, !.transactionScalar = scalar]

\* {type: "query", statement}
StudioQueryBody(statement) ==
    [NoBody EXCEPT !.json = TRUE, !.type = "query", !.statement = statement]

\* {type: "transaction", statements}
StudioTransactionBody(statements) ==
    [NoBody EXCEPT !.json = TRUE, !.type = "transaction",
                   !.statements = statements]

Batches == UNION {[1..k -> Statements] : k \in 0..MaxBatch}

Bodies ==
    {NoBody, [NoBody EXCEPT !.json = TRUE],
     [NoBody EXCEPT !.json = TRUE, !.type = "other"]}
    \cup {SqlBody(s) : s \in Statements}
    \cup {TransactionBody(NoText, t) : t \in Batches}
    \cup {TransactionBody("SELECT 1", t) : t \in Batches}
    \cup {ScalarTransactionBody(s, v) :
            s \in Statements, v \in {"false", "emptyString"}}
    \cup {StudioQueryBody(s) : s \in Statements}
    \cup {StudioTransactionBody(t) : t \in Batches}

Methods == {"GET", "POST", "OPTIONS", "DELETE"}

\* /query/raw, /db/query/raw, /studio, /db/studio and four paths that end
\* with no route: /, /query, /studio/db, /query/raw/
Paths ==
    {<<"query", "raw">>, <<"db", "query", "raw">>, <<"studio">>,
     <<"db", "studio">>, <<"">>, <<"query">>, <<"studio", "db">>,
     <<"query", "raw", "">>}

GatewayHeaders ==
    {Undefined, BasicNoPayload, BearerHeader, NotBase64Header, NoColonHeader,
     CredentialsHeader(adminAuth),
     BasicHeader(<<97, ColonChar, 97>>),
     BasicHeader(<<97, ColonChar, 98, ColonChar, 97>>)}

Request(method, path, authorization, body) ==
    [method |-> method, path |-> path, authorization |-> authorization,
     body |-> body]

\* a body travels with a POST only
GatewayRequests ==
    {Request(m, p, h, NoBody) :
        m \in Methods \ {"POST"}, p \in Paths, h \in GatewayHeaders}
    \cup {Request("POST", p, h, b) :
        p \in Paths, h \in GatewayHeaders, b \in Bodies}

AuthHeaders ==
    {Undefined, <<>>, BasicNoPayload, BearerHeader, LowerCaseSchemeHeader,
     NotBase64Header, ShortBase64Header}
    \cup {BasicHeader(d) : d \in Texts({97, ColonChar}, 2 * MaxCredLen + 1)}

AuthRequests == {Request("GET", studioRoute, h, NoBody) : h \in AuthHeaders}

\* the statement texts of the long batches: a read of what was written, a
\* write, a statement the engine rejects, a read with two columns of one name
BatchStatements ==
    {"SELECT COUNT(*) FROM t", "INSERT INTO t VALUES (1)", "SELEC",
     "SELECT 1 AS id, 2 AS id"}

LongBatches == UNION {[1..k -> BatchStatements] : k \in 0..MaxLongBatch}

\* no auth; no validator, or a read-only one
BatchOptions ==
    [dangerouslyDisableAuth : {TRUE}, basicAuth : {NoBasicAuth},
     disableStudio : {FALSE},
     validator : {NoValidator, Validator({"INSERT INTO t VALUES (1)"})}]

\* batches and single statements, posted to either route
BatchRequests ==
    {Request("POST", queryRawRoute, Undefined, TransactionBody(NoText, t)) :
        t \in LongBatches}
    \cup {Request("POST", studioRoute, Undefined, StudioTransactionBody(t)) :
        t \in LongBatches}
    \cup {Request("POST", queryRawRoute, Undefined, SqlBody(s)) :
        s \in BatchStatements}
    \cup {Request("POST", studioRoute, Undefined, StudioQueryBody(s)) :
        s \in BatchStatements}

NoRequest == Request("", <<>>, Undefined, NoBody)

\* the studio route of either mount point, asked with or without the
\* configured credentials
StudioRequests ==
    {Request(m, p, h, NoBody) :
        m \in {"GET", "DELETE"}, p \in {<<"studio">>, <<"db", "studio">>},
        h \in {Undefined, CredentialsHeader(adminAuth)}}
    \cup {Request("POST", p, h, b) :
        p \in {<<"studio">>, <<"db", "studio">>},
        h \in {Undefined, CredentialsHeader(adminAuth)}, b \in Bodies}

\* the commands __studio is called with
RpcCommands ==
    {[NoBody EXCEPT !.json = TRUE, !.type = "other"]}
    \cup {StudioQueryBody(s) : s \in Statements}
    \cup {StudioTransactionBody(t) : t \in Batches}

\* a call of the RPC method __studio(cmd), as a request
RpcCall(cmd) == Request("RPC", <<"__studio">>, Undefined, cmd)

-----------------------------------------------------------------------------
(* browsableRequest *)

NotCalled == [kind |-> "notCalled"]

\* a last statement of browsableRequest that returns null
NotFoundAsSentinel == NullSentinel

NotFoundResponse == Response(404, <<>>, TextBody("Not found"))

PreflightResponse == Response(204, corsHeaders, EmptyBody)

StudioPageResponse == Response(200, "Content-Type" :> "text/html", HtmlBody)

\* browsableRequest past the auth gate: the choice of the branch
routeRequest(req, opts) ==
    IF EndsWith(req.path, queryRawRoute) /\ req.method = "POST"
    THEN [goto |-> "rawBody", response |-> Pending]
    ELSE IF /\ EndsWith(req.path, studioRoute)
            /\ ~opts.disableStudio
            /\ req.method = "GET"
    THEN [goto |-> "done", response |-> StudioPageResponse]
    ELSE IF /\ EndsWith(req.path, studioRoute)
            /\ ~opts.disableStudio
            /\ req.method = "POST"
    THEN [goto |-> "studioBody", response |-> Pending]
    ELSE [goto |-> "done", response |-> NotFoundResponse]

\* an entry that runs the auth gate before it answers the preflight
browsableRequestEntryAuthFirst(req, opts) ==
    IF ~isSupported(req.path)
    THEN [auth |-> NotCalled, goto |-> "done", response |-> NullSentinel]
    ELSE LET authError == checkAuth(req, opts)
         IN  IF authError # NullSentinel
             THEN [auth |-> authError, goto |-> "done", response |-> authError]
             ELSE IF req.method = "OPTIONS"
             THEN [auth |-> authError, goto |-> "done",
                   response |-> PreflightResponse]
             ELSE [auth |-> authError] @@ routeRequest(req, opts)

\* an entry that serves the studio page before it runs the auth gate
browsableRequestEntryPageFirst(req, opts) ==
    IF ~isSupported(req.path)
    THEN [auth |-> NotCalled, goto |-> "done", response |-> NullSentinel]
    ELSE IF req.method = "OPTIONS"
    THEN [auth |-> NotCalled, goto |-> "done", response |-> PreflightResponse]
    ELSE IF routeRequest(req, opts).response = StudioPageResponse
    THEN [auth |-> NotCalled] @@ routeRequest(req, opts)
    ELSE LET authError == checkAuth(req, opts)
         IN  IF authError # NullSentinel
             THEN [auth |-> authError, goto |-> "done", response |-> authError]
             ELSE [auth |-> authError] @@ routeRequest(req, opts)

\* browsableRequest up to its first await: the route check, the preflight,
\* the auth gate and the choice of the branch. `auth` is what checkAuth
\* returned (NotCalled when it was not reached), `goto` the branch taken.
browsableRequestEntry(req, opts) ==
    IF ~isSupported(req.path)
    THEN [auth |-> NotCalled, goto |-> "done", response |-> NullSentinel]
    ELSE IF req.method = "OPTIONS"
    THEN [auth |-> NotCalled, goto |-> "done", response |-> PreflightResponse]
    ELSE LET authError == checkAuth(req, opts)
         IN  IF authError # NullSentinel
             THEN [auth |-> authError, goto |-> "done", response |-> authError]
             ELSE [auth |-> authError] @@ routeRequest(req, opts)

\* the position of the first statement the validator rejects, 0 if none
RECURSIVE FirstInvalid(_, _, _)
FirstInvalid(opts, stmts, i) ==
    IF i > Len(stmts) THEN 0
    ELSE IF ~validator(opts, stmts[i]).isValid THEN i
    ELSE FirstInvalid(opts, stmts, i + 1)

\* the statements the raw-query route hands to the validator, in order: the
\* loop over the transaction, or else the sql field when it is truthy
rawValidated(opts, body) ==
    IF ~opts.validator.configured THEN <<>>
    ELSE IF body.hasTransaction THEN
        LET k == FirstInvalid(opts, body.transaction, 1)
        IN  IF k = 0 THEN body.transaction ELSE SubSeq(body.transaction, 1, k)
    ELSE IF Truthy(body.sql) THEN <<body.sql>>
    ELSE <<>>

\* a batch taken from its last statement to its first
rawQueriesReversed(body) ==
    IF body.hasTransaction
    THEN [i \in 1..Len(body.transaction) |->
            body.transaction[Len(body.transaction) + 1 - i]]
    ELSE IF body.transactionScalar # "none" THEN <<>>
    ELSE <<body.sql>>

\* a choice of the statements to execute that prefers the sql field
rawQueriesSqlFirst(body) ==
    IF Truthy(body.sql) THEN <<body.sql>> ELSE body.transaction

\* transaction ?? [{sql, params}]: the queries executeTransaction iterates.
\* A transaction field that is not null is taken, array or not: the loop
\* over "" has no turn (the loop over false throws, see NotIterable)
rawQueries(body) ==
    IF body.hasTransaction THEN body.transaction
    ELSE IF body.transactionScalar # "none" THEN <<>>
    ELSE <<body.sql>>

\* executeTransaction's for-of over a transaction field that is false throws
NotIterable(body) == body.transactionScalar = "false"

\* the statements of a studio command
studioStatements(body) ==
    IF body.type = "query" THEN <<body.statement>> ELSE body.statements

\* a validation that looks at the first statement of the command only
studioValidatedFirstOnly(opts, body) ==
    IF ~opts.validator.configured THEN <<>>
    ELSE LET stmts == studioStatements(body)
         IN  IF stmts = <<>> THEN <<>> ELSE <<Head(stmts)>>

\* the statements executeStudioRequest hands to the validator, in order
studioValidated(opts, body) ==
    IF ~opts.validator.configured THEN <<>>
    ELSE LET stmts == studioStatements(body)
             k == FirstInvalid(opts, stmts, 1)
         IN  IF k = 0 THEN stmts ELSE SubSeq(stmts, 1, k)

\* the last validation made, given that one was made
LastValidation(opts, checked) == validator(opts, checked[Len(checked)])

Rejected(opts, checked) ==
    Len(checked) > 0 /\ ~LastValidation(opts, checked).isValid

-----------------------------------------------------------------------------
(* RemoteSqlStorageCursor *)

\* most rows the remote engine holds
MaxRows == 2

\* most read calls made on one cursor
MaxReads == 3

\* this.error: null, or an Error with its message
NoError == [isError |-> FALSE, message |-> <<>>]

ErrorOf(message) == [isError |-> TRUE, message |-> message]

\* A JavaScript object is the sequence of its <<key, value>> properties in
\* property order: the keys that are array indices first, in ascending
\* order, then the other keys in the order they were added.
ArrayIndex(key) == IF key = "1" THEN 1 ELSE IF key = "2" THEN 2 ELSE -1

HasProperty(obj, key) == \E i \in 1..Len(obj) : obj[i][1] = key

\* obj[key] = value
SetProperty(obj, key, value) ==
    IF HasProperty(obj, key)
    THEN [i \in 1..Len(obj) |->
            IF obj[i][1] = key THEN <<key, value>> ELSE obj[i]]
    ELSE IF ArrayIndex(key) >= 0
    THEN LET before ==
                 Cardinality({i \in 1..Len(obj) :
                                /\ ArrayIndex(obj[i][1]) >= 0
                                /\ ArrayIndex(obj[i][1]) < ArrayIndex(key)})
         IN  SubSeq(obj, 1, before) \o << <<key, value>> >>
                 \o SubSeq(obj, before + 1, Len(obj))
    ELSE Append(obj, <<key, value>>)

\* obj[key], given that obj has the key
GetProperty(obj, key) ==
    obj[CHOOSE i \in 1..Len(obj) : obj[i][1] = key][2]

\* Object.values(obj)
ObjectValues(obj) == [i \in 1..Len(obj) |-> obj[i][2]]

\* an object that keeps the value a key was given first
RECURSIVE RowObjectFirstWins(_, _, _)
RowObjectFirstWins(columns, row, idx) ==
    IF idx = 0 THEN <<>>
    ELSE LET obj == RowObjectFirstWins(columns, row, idx - 1)
         IN  IF HasProperty(obj, columns[idx]) THEN obj
             ELSE SetProperty(obj, columns[idx], row[idx])

\* this._columnNames.forEach((col, idx) => { obj[col] = row[idx] }), up to
\* the column at idx
RECURSIVE RowObject(_, _, _)
RowObject(columns, row, idx) ==
    IF idx = 0 THEN <<>>
    ELSE SetProperty(RowObject(columns, row, idx - 1), columns[idx], row[idx])

\* the statements sent through remote cursors
RemoteStatements ==
    {"SELECT rowid FROM t", "INSERT INTO t VALUES (1)", "SELEC",
     "SELECT 1 AS id, 2 AS id", "SELECT 1 AS x, 2"}

\* what stub.fetch can end with: a rejection, a response that is not ok
\* with its text, or an ok response with its decoded body
Rejection(error) ==
    [kind |-> "rejected", error |-> error, ok |-> FALSE, text |-> "",
     json |-> FALSE, data |-> [error |-> NoText, result |-> <<>>]]

NotOk(text) ==
    [kind |-> "response", error |-> <<>>, ok |-> FALSE, text |-> text,
     json |-> FALSE, data |-> [error |-> NoText, result |-> <<>>]]

NotJson ==
    [kind |-> "response", error |-> <<>>, ok |-> TRUE, text |-> "",
     json |-> FALSE, data |-> [error |-> NoText, result |-> <<>>]]

\* the envelope {error, result}; a missing result list reads as an empty one
Envelope(error, result) ==
    [kind |-> "response", error |-> <<>>, ok |-> TRUE, text |-> "",
     json |-> TRUE, data |-> [error |-> error, result |-> result]]

\* the replies of a gateway in front of an engine that holds up to MaxRows
\* rows, to the raw query sql: the envelope of the raw-query route when the
\* engine accepts the statement, the runtime's 500 when it throws
GatewayReplies(sql) ==
    {IF exec(sql, d).threw THEN NotOk("Internal Server Error")
     ELSE Envelope(NoText, <<executeQuery(exec(sql, d).cursor)>>) :
        d \in 0..MaxRows}

\* every reply explored: the gateway's, failures of the network and of the
\* gateway (401, 400), and envelopes with an error, with an empty error,
\* with an empty result list, with an error beside a result
Replies(sql) ==
    GatewayReplies(sql)
    \cup {Rejection(<<"Network connection lost">>), NotOk("Unauthorized"),
          NotOk("{\"result\":null,\"error\":\"Invalid query: E\"}"),
          NotJson, Envelope("E", <<>>), Envelope("", <<>>),
          Envelope(NoText, <<>>)}
    \cup {Envelope("E", r.data.result) : r \in GatewayReplies(sql)}

\* the fields a cursor has before its constructor runs
NoRemote ==
    [constructed |-> FALSE, query |-> NoText, results |-> <<>>,
     currentIndex |-> 0, columnNames |-> <<>>, rowsRead |-> 0,
     rowsWritten |-> 0, isResolved |-> FALSE, error |-> NoError,
     fetches |-> 0, reply |-> NotJson, pending |-> <<>>, log |-> <<>>]

\* a constructor that leaves the request to the first read
constructorLazy(query) ==
    [NoRemote EXCEPT !.constructed = TRUE, !.query = query]

\* new RemoteSqlStorageCursor(stub, query, bindings, authorization): the
\* field initializers, and executeQuery up to its await of stub.fetch
constructor(query) ==
    [NoRemote EXCEPT !.constructed = TRUE, !.query = query, !.fetches = 1]

\* the catch block of executeQuery
Caught(c, message) ==
    [c EXCEPT !.error = ErrorOf(message), !.isResolved = TRUE]

\* executeQuery of the cursor: the first result of the envelope is taken in
Filled(c, data) ==
    IF Len(data.result) > 0
    THEN LET result == data.result[1]
         IN  [c EXCEPT
                 !.columnNames = result.columns,
                 !.results =
                     [r \in 1..Len(result.rows) |->
                         RowObject(result.columns, result.rows[r],
                                   Len(result.columns))],
                 !.rowsRead = result.meta.rows_read,
                 !.rowsWritten = result.meta.rows_written]
    ELSE c

\* an executeQuery that takes the result in before it looks at the error
RemoteExecuteQueryRowsFirst(c, reply) ==
    IF reply.kind = "rejected" THEN Caught(c, reply.error)
    ELSE IF ~reply.ok
    THEN Caught(c, <<"SQL execution failed: ", reply.text>>)
    ELSE IF ~reply.json THEN Caught(c, <<"SyntaxError">>)
    ELSE IF Truthy(reply.data.error)
    THEN Caught(Filled(c, reply.data), <<reply.data.error>>)
    ELSE [Filled(c, reply.data) EXCEPT !.isResolved = TRUE]

\* executeQuery of the cursor, from the end of stub.fetch on
RemoteExecuteQuery(c, reply) ==
    IF reply.kind = "rejected" THEN Caught(c, reply.error)
    ELSE IF ~reply.ok
    THEN Caught(c, <<"SQL execution failed: ", reply.text>>)
    ELSE IF ~reply.json THEN Caught(c, <<"SyntaxError">>)
    ELSE IF Truthy(reply.data.error) THEN Caught(c, <<reply.data.error>>)
    ELSE [Filled(c, reply.data) EXCEPT !.isResolved = TRUE]

\* the read methods, and executeQuery of the gateway as a caller of raw()
ReadMethods ==
    {"next", "toArray", "one", "raw", "rawIterate", "executeQuery"}

\* what a call that is over left behind
Outcome(method, kind, value) ==
    [method |-> method, kind |-> kind, value |-> value]

\* this.results.map((row) => Object.values(row))
RawRows(c) == [r \in 1..Len(c.results) |-> ObjectValues(c.results[r])]

\* a read that sends the request again while the cursor is unresolved
CalledRefetching(c, method) ==
    [c EXCEPT !.pending = Append(@, [method |-> method,
                                     columns |-> c.columnNames]),
              !.fetches = IF c.isResolved THEN @ ELSE @ + 1]

\* a read method is called: it runs up to its await of ensureResolved. The
\* gateway's executeQuery has read cursor.columnNames by then.
Called(c, method) ==
    [c EXCEPT !.pending = Append(@, [method |-> method,
                                     columns |-> c.columnNames])]

\* an ensureResolved that does not look at this.error
ensureResolvedIgnoringError(c) == NoError

\* ensureResolved, once the cursor is resolved: the error it throws, if any
ensureResolved(c) == c.error

\* a next() that does not move on
nextWithoutAdvance(c) ==
    IF c.currentIndex < Len(c.results)
    THEN [cursor |-> c,
          outcome |-> Outcome("next", "value", c.results[c.currentIndex + 1])]
    ELSE [cursor |-> c, outcome |-> Outcome("next", "done", <<>>)]

\* a next() that moves the position two rows on
nextSkipping(c) ==
    IF c.currentIndex < Len(c.results)
    THEN [cursor |-> [c EXCEPT !.currentIndex = @ + 2],
          outcome |-> Outcome("next", "value", c.results[c.currentIndex + 1])]
    ELSE [cursor |-> c, outcome |-> Outcome("next", "done", <<>>)]

\* next(), past ensureResolved
next(c) ==
    IF c.currentIndex < Len(c.results)
    THEN [cursor |-> [c EXCEPT !.currentIndex = @ + 1],
          outcome |-> Outcome("next", "value", c.results[c.currentIndex + 1])]
    ELSE [cursor |-> c, outcome |-> Outcome("next", "done", <<>>)]

\* a toArray() that hands its rows over and keeps none
toArrayDraining(c) ==
    [cursor |-> [c EXCEPT !.results = <<>>],
     outcome |-> Outcome("toArray", "value", c.results)]

\* toArray(), past ensureResolved: [...this.results]
toArray(c) ==
    [cursor |-> c, outcome |-> Outcome("toArray", "value", c.results)]

\* a one() that returns this.results[0] whatever it is
oneUnchecked(c) ==
    [cursor |-> c,
     outcome |-> IF Len(c.results) = 0
                 THEN Outcome("one", "value", JUndefined)
                 ELSE Outcome("one", "value", c.results[1])]

\* one(), past ensureResolved
one(c) ==
    [cursor |-> c,
     outcome |-> IF Len(c.results) = 0
                 THEN Outcome("one", "threw", <<"No rows returned">>)
                 ELSE Outcome("one", "value", c.results[1])]

\* raw(), past ensureResolved
raw(c) == [cursor |-> c, outcome |-> Outcome("raw", "value", RawRows(c))]

\* a rawIterate() that walks the rows with the position next() uses
rawIterateAdvancing(c) ==
    [cursor |-> [c EXCEPT !.currentIndex = Len(c.results)],
     outcome |-> Outcome("rawIterate", "value", RawRows(c))]

\* rawIterate(), iterated to its end, past ensureResolved
rawIterate(c) ==
    [cursor |-> c, outcome |-> Outcome("rawIterate", "value", RawRows(c))]

\* executeQuery of the gateway over a remote cursor: the columns are those
\* read before the await of cursor.raw(), the counters those read after it
gatewayExecuteQuery(c, call) ==
    [cursor |-> c,
     outcome |-> Outcome("executeQuery", "value",
                    [columns |-> call.columns,
                     rows |-> RawRows(c),
                     meta |-> [rows_read |-> c.rowsRead,
                               rows_written |-> c.rowsWritten]])]

\* the rest of a read call, once the cursor is resolved
ReadResumes(c, call) ==
    IF ensureResolved(c).isError
    THEN [cursor |-> c,
          outcome |-> Outcome(call.method, "threw", ensureResolved(c).message)]
    ELSE IF call.method = "next" THEN next(c)
    ELSE IF call.method = "toArray" THEN toArray(c)
    ELSE IF call.method = "one" THEN one(c)
    ELSE IF call.method = "raw" THEN raw(c)
    ELSE IF call.method = "rawIterate" THEN rawIterate(c)
    ELSE gatewayExecuteQuery(c, call)

-----------------------------------------------------------------------------
(* Actions *)

\* a request reaches browsableRequest
Arrive(requests) ==
    /\ pc = "idle"
    /\ \E r \in requests : request' = r
    /\ pc' = "received"
    /\ UNCHANGED <<options, response, authResult, bodyRead, validated, queue,
                   results, execLog, db, awaited, concurrent,
                   remote, runs, host>>

\* browsableRequest up to its first await
Dispatch ==
    /\ pc = "received"
    /\ LET e == browsableRequestEntry(request, options)
       IN  /\ authResult' = e.auth
           /\ response' = e.response
           /\ pc' = e.goto
    /\ UNCHANGED <<options, request, bodyRead, validated, queue, results,
                   execLog, db, awaited, concurrent,
                   remote, runs, host>>

\* a raw-query route that rejects every request it parses
RawQueryDefaultDeny ==
    /\ pc = "rawBody"
    /\ bodyRead' = TRUE
    /\ response' = createResponse(JNull,
                       JString(<<"Invalid query: ", NoText>>), 400)
    /\ pc' = "done"
    /\ UNCHANGED <<options, request, authResult, validated, queue, results,
                   execLog, db, awaited, concurrent, remote, runs, host>>

\* the raw-query route: the body is parsed and its statements validated
RawQuery ==
    /\ pc = "rawBody"
    /\ bodyRead' = TRUE
    /\ IF ~request.body.json
       THEN /\ response' = Threw(<<"SyntaxError">>)
            /\ pc' = "done"
            /\ UNCHANGED <<validated, queue>>
       ELSE LET checked == rawValidated(options, request.body)
            IN  /\ validated' = checked
                /\ IF Rejected(options, checked)
                   THEN /\ response' =
                               createResponse(JNull,
                                   JString(InvalidQueryMessage(
                                       LastValidation(options, checked))),
                                   400)
                        /\ pc' = "done"
                        /\ UNCHANGED queue
                   ELSE IF NotIterable(request.body)
                   THEN /\ response' =
                               Threw(<<"TypeError: queries is not iterable">>)
                        /\ pc' = "done"
                        /\ UNCHANGED queue
                   ELSE /\ queue' = rawQueries(request.body)
                        /\ pc' = "rawExec"
                        /\ UNCHANGED response
    /\ UNCHANGED <<options, request, authResult, results, execLog, db,
                   awaited, concurrent,
                   remote, runs, host>>

\* a loop that goes on to the next statement when one throws
RawExecuteContinues ==
    /\ pc = "rawExec"
    /\ queue # <<>>
    /\ awaited = NoCursor
    /\ LET r == exec(Head(queue), db)
       IN  /\ execLog' = Append(execLog, Head(queue))
           /\ db' = r.db
           /\ awaited' = IF r.threw THEN NoCursor ELSE r.cursor
           /\ queue' = Tail(queue)
           /\ UNCHANGED <<response, pc>>
    /\ UNCHANGED <<options, request, authResult, bodyRead, validated, results,
                   concurrent,
                   remote, runs, host>>

\* executeTransaction: one turn of its loop, up to the await in
\* executeQuery: the statement is handed to the execution adapter, whose
\* exception is caught nowhere
RawExecute ==
    /\ pc = "rawExec"
    /\ queue # <<>>
    /\ awaited = NoCursor
    /\ LET r == exec(Head(queue), db)
       IN  /\ execLog' = Append(execLog, Head(queue))
           /\ db' = r.db
           /\ IF r.threw
              THEN /\ response' = Threw(r.error)
                   /\ pc' = "done"
                   /\ UNCHANGED <<queue, awaited>>
              ELSE /\ awaited' = r.cursor
                   /\ queue' = Tail(queue)
                   /\ UNCHANGED <<response, pc>>
    /\ UNCHANGED <<options, request, authResult, bodyRead, validated, results,
                   concurrent,
                   remote, runs, host>>

\* executeTransaction: the rest of the turn: the awaited rows are there,
\* and the item is pushed
RawRealize ==
    /\ pc = "rawExec"
    /\ awaited # NoCursor
    /\ results' = Append(results, executeQuery(awaited))
    /\ awaited' = NoCursor
    /\ UNCHANGED <<options, request, pc, response, authResult, bodyRead,
                   validated, queue, execLog, db, concurrent,
                   remote, runs, host>>

\* the raw-query route answers with the collected results
RawRespond ==
    /\ pc = "rawExec"
    /\ queue = <<>>
    /\ awaited = NoCursor
    /\ response' = createResponse(JValue(results), JUndefined, 200)
    /\ pc' = "done"
    /\ UNCHANGED <<options, request, authResult, bodyRead, validated, queue,
                   results, execLog, db, awaited, concurrent,
                   remote, runs, host>>

\* the studio route, POST: the command is parsed and its statements validated
StudioCommand ==
    /\ pc = "studioBody"
    /\ bodyRead' = TRUE
    /\ IF ~request.body.json
       THEN /\ response' = Threw(<<"SyntaxError">>)
            /\ pc' = "done"
            /\ UNCHANGED <<validated, queue>>
       ELSE IF request.body.type \notin {"query", "transaction"}
       THEN /\ response' = ResponseJson([error |-> JString(<<"Invalid request">>)])
            /\ pc' = "done"
            /\ UNCHANGED <<validated, queue>>
       ELSE LET checked == studioValidated(options, request.body)
            IN  /\ validated' = checked
                /\ IF Rejected(options, checked)
                   THEN /\ response' =
                               ResponseJson([error |-> JString(
                                   InvalidQueryMessage(
                                       LastValidation(options, checked)))])
                        /\ pc' = "done"
                        /\ UNCHANGED queue
                   ELSE /\ queue' = studioStatements(request.body)
                        /\ pc' = "studioExec"
                        /\ UNCHANGED response
    /\ UNCHANGED <<options, request, authResult, results, execLog, db,
                   awaited, concurrent,
                   remote, runs, host>>

\* executeStudioRequest: one statement, up to the await in
\* executeQueryForStudio; an exception is caught by the route
StudioExecute ==
    /\ pc = "studioExec"
    /\ queue # <<>>
    /\ awaited = NoCursor
    /\ LET r == exec(Head(queue), db)
       IN  /\ execLog' = Append(execLog, Head(queue))
           /\ db' = r.db
           /\ IF r.threw
              THEN /\ response' = ResponseJson([error |-> JString(r.error)])
                   /\ pc' = "done"
                   /\ UNCHANGED <<queue, awaited>>
              ELSE /\ awaited' = r.cursor
                   /\ queue' = Tail(queue)
                   /\ UNCHANGED <<response, pc>>
    /\ UNCHANGED <<options, request, authResult, bodyRead, validated, results,
                   concurrent,
                   remote, runs, host>>

\* executeStudioRequest: the awaited rows are there, and the item is built
StudioRealize ==
    /\ pc = "studioExec"
    /\ awaited # NoCursor
    /\ results' = Append(results, executeQueryForStudio(awaited))
    /\ awaited' = NoCursor
    /\ UNCHANGED <<options, request, pc, response, authResult, bodyRead,
                   validated, queue, execLog, db, concurrent,
                   remote, runs, host>>

\* the studio route answers with the result of the command
StudioRespond ==
    /\ pc = "studioExec"
    /\ queue = <<>>
    /\ awaited = NoCursor
    /\ response' =
           ResponseJson([result |->
               JValue(IF request.body.type = "query" THEN results[1]
                      ELSE results)])
    /\ pc' = "done"
    /\ UNCHANGED <<options, request, authResult, bodyRead, validated, queue,
                   results, execLog, db, awaited, concurrent,
                   remote, runs, host>>

\* __studio(cmd) is called on the decorated object
StudioRpc(cmds) ==
    /\ pc = "idle"
    /\ \E cmd \in cmds : request' = RpcCall(cmd)
    /\ pc' = "rpcCommand"
    /\ UNCHANGED <<options, response, authResult, bodyRead, validated, queue,
                   results, execLog, db, awaited, concurrent,
                   remote, runs, host>>

\* __studio: the statements of the command are validated; a command that is
\* neither a query nor a transaction runs off the end of the method
StudioRpcCommand ==
    /\ pc = "rpcCommand"
    /\ LET checked == studioValidated(options, request.body)
       IN  /\ validated' = checked
           /\ IF Rejected(options, checked)
              THEN /\ response' =
                          Threw(InvalidQueryMessage(
                                    LastValidation(options, checked)))
                   /\ pc' = "done"
                   /\ UNCHANGED queue
              ELSE IF request.body.type \notin {"query", "transaction"}
              THEN /\ response' = Returned(JUndefined)
                   /\ pc' = "done"
                   /\ UNCHANGED queue
              ELSE /\ queue' = studioStatements(request.body)
                   /\ pc' = "rpcExec"
                   /\ UNCHANGED response
    /\ UNCHANGED <<options, request, authResult, bodyRead, results, execLog,
                   db, awaited, concurrent,
                   remote, runs, host>>

\* __studio: one statement, up to the await in executeQueryForStudio. The
\* method passes sql.exec detached from sql: the first call either works as
\* sql.exec(statement) does or throws the runtime's TypeError. An exception
\* inside storage.transaction undoes what the transaction wrote.
StudioRpcExecute ==
    /\ pc = "rpcExec"
    /\ queue # <<>>
    /\ awaited = NoCursor
    /\ \E detached \in IF execLog = <<>> THEN BOOLEAN ELSE {FALSE} :
         LET r == IF detached
                  THEN [threw |-> TRUE,
                        error |-> <<"TypeError: Illegal invocation">>,
                        db |-> db, cursor |-> NoCursor]
                  ELSE exec(Head(queue), db)
         IN  /\ execLog' = Append(execLog, Head(queue))
             /\ IF r.threw
                THEN /\ response' = Threw(r.error)
                     /\ pc' = "done"
                     /\ db' = IF request.body.type = "transaction"
                              THEN db - Written(execLog)
                              ELSE r.db
                     /\ UNCHANGED <<queue, awaited>>
                ELSE /\ awaited' = r.cursor
                     /\ queue' = Tail(queue)
                     /\ db' = r.db
                     /\ UNCHANGED <<response, pc>>
    /\ UNCHANGED <<options, request, authResult, bodyRead, validated, results,
                   concurrent,
                   remote, runs, host>>

\* __studio: the awaited rows are there, and the item is built
StudioRpcRealize ==
    /\ pc = "rpcExec"
    /\ awaited # NoCursor
    /\ results' = Append(results, executeQueryForStudio(awaited))
    /\ awaited' = NoCursor
    /\ UNCHANGED <<options, request, pc, response, authResult, bodyRead,
                   validated, queue, execLog, db, concurrent,
                   remote, runs, host>>

\* __studio returns the result of the command
StudioRpcReturn ==
    /\ pc = "rpcExec"
    /\ queue = <<>>
    /\ awaited = NoCursor
    /\ response' =
           Returned(JValue(IF request.body.type = "query" THEN results[1]
                           ELSE results))
    /\ pc' = "done"
    /\ UNCHANGED <<options, request, authResult, bodyRead, validated, queue,
                   results, execLog, db, awaited, concurrent,
                   remote, runs, host>>

\* another request's write reaches the same engine between two steps of
\* this one
ConcurrentWrite ==
    /\ concurrent < MaxConcurrent
    /\ db' = db + 1
    /\ concurrent' = concurrent + 1
    /\ UNCHANGED <<options, request, pc, response, authResult, bodyRead,
                   validated, queue, results, execLog, awaited,
                   remote, runs, host>>

\* exec(query) of getExec: a remote cursor is constructed
Construct(queries) ==
    /\ ~remote.constructed
    /\ \E query \in queries : remote' = constructor(query)
    /\ UNCHANGED <<gatewayVars, runs, host>>

\* stub.fetch ends, and executeQuery of the cursor runs to its end
Resolve ==
    /\ remote.constructed
    /\ remote.fetches > 0
    /\ ~remote.isResolved
    /\ \E reply \in Replies(remote.query) :
          remote' = [RemoteExecuteQuery(remote, reply) EXCEPT !.reply = reply]
    /\ UNCHANGED <<gatewayVars, runs, host>>

\* a caller calls a read method of the cursor
Read ==
    /\ remote.constructed
    /\ Len(remote.pending) + Len(remote.log) < MaxReads
    /\ \E method \in ReadMethods : remote' = Called(remote, method)
    /\ UNCHANGED <<gatewayVars, runs, host>>

\* a read call resumes after its await and ends; calls resume in any order
ReadReturn ==
    /\ remote.isResolved
    /\ \E i \in 1..Len(remote.pending) :
          LET r == ReadResumes(remote, remote.pending[i])
          IN  remote' =
                  [r.cursor EXCEPT
                      !.pending = SubSeq(@, 1, i - 1)
                                      \o SubSeq(@, i + 1, Len(@)),
                      !.log = Append(@, r.outcome)]
    /\ UNCHANGED <<gatewayVars, runs, host>>

-----------------------------------------------------------------------------
(* Re-issued requests *)

\* raw-query POSTs of batches and of single statements
RawRequests ==
    {Request("POST", queryRawRoute, Undefined, TransactionBody(NoText, t)) :
        t \in LongBatches}
    \cup {Request("POST", queryRawRoute, Undefined, SqlBody(s)) :
        s \in BatchStatements}

\* a request arrives; the data it starts from is noted
Issue(requests) ==
    /\ pc = "idle"
    /\ runs = <<>>
    /\ \E r \in requests : request' = r
    /\ pc' = "received"
    /\ runs' = <<[db |-> db, response |-> Pending]>>
    /\ UNCHANGED <<options, response, authResult, bodyRead, validated, queue,
                   results, execLog, db, awaited, concurrent, remote, host>>

\* a second call that finds the results array of the first
ReissueKeepingResults ==
    /\ pc = "done"
    /\ Len(runs) = 1
    /\ \E d \in {db, runs[1].db} :
           /\ db' = d
           /\ runs' = <<[db |-> runs[1].db, response |-> response],
                        [db |-> d, response |-> Pending]>>
    /\ pc' = "received"
    /\ response' = Pending
    /\ authResult' = NotCalled
    /\ bodyRead' = FALSE
    /\ validated' = <<>>
    /\ queue' = <<>>
    /\ execLog' = <<>>
    /\ awaited' = NoCursor
    /\ UNCHANGED <<options, request, results, concurrent, remote, host>>

\* the same request is sent again once the first is answered:
\* browsableRequest is called anew, and everything it works with (the parsed
\* body, the validations, the queries, the results array) is local to the
\* call. The data is as the first run left it, or as it was before that run.
Reissue ==
    /\ pc = "done"
    /\ Len(runs) = 1
    /\ \E d \in {db, runs[1].db} :
           /\ db' = d
           /\ runs' = <<[db |-> runs[1].db, response |-> response],
                        [db |-> d, response |-> Pending]>>
    /\ pc' = "received"
    /\ response' = Pending
    /\ authResult' = NotCalled
    /\ bodyRead' = FALSE
    /\ validated' = <<>>
    /\ queue' = <<>>
    /\ results' = <<>>
    /\ execLog' = <<>>
    /\ awaited' = NoCursor
    /\ UNCHANGED <<options, request, concurrent, remote, host>>

-----------------------------------------------------------------------------
(* Entry points: BrowsableHandler, BrowsableDurableObject, Browsable, studio() *)

\* a BrowsableHandler, a BrowsableDurableObject and a class wrapped by
\* Browsable, each with its sql property set or not, the wrapped class with
\* or without a fetch of its own; and the studio() helper
Hosts ==
    [kind : {"BrowsableHandler", "BrowsableDurableObject"}, sql : BOOLEAN,
     parentFetch : {FALSE}]
    \cup [kind : {"Browsable"}, sql : BOOLEAN, parentFetch : BOOLEAN]
    \cup [kind : {"studio"}, sql : {TRUE}, parentFetch : {FALSE}]

\* requests on every path, without credentials and with the configured ones
HostRequests ==
    {Request(m, p, h, NoBody) :
        m \in Methods \ {"POST"}, p \in Paths,
        h \in {Undefined, CredentialsHeader(adminAuth)}}
    \cup {Request("POST", p, h, b) :
        p \in Paths, h \in {Undefined, CredentialsHeader(adminAuth)},
        b \in {NoBody, [NoBody EXCEPT !.json = TRUE, !.type = "other"],
               SqlBody("SELECT 1"),
               StudioQueryBody("INSERT INTO t VALUES (1)"),
               StudioTransactionBody(<<"SELECT 1", "SELEC">>)}}

\* BrowsableHandler.fetch up to its await of browsableRequest, called
\* directly, by BrowsableDurableObject.fetch or by the fetch of the class
\* Browsable returns: without sql it answers 500 itself
HostFetch(requests) ==
    /\ pc = "idle"
    /\ host.kind # "studio"
    /\ \E r \in requests : request' = r
    /\ IF host.sql
       THEN /\ pc' = "received"
            /\ UNCHANGED response
       ELSE /\ pc' = IF host.kind = "Browsable" THEN "handled" ELSE "returned"
            /\ response' =
                   Response(500, <<>>, TextBody("SQL storage not available"))
    /\ UNCHANGED <<options, authResult, bodyRead, validated, queue, results,
                   execLog, db, awaited, concurrent, remote, runs, host>>

\* a BrowsableHandler.fetch that hands on the null of browsableRequest
HandlerReturnPassingNull ==
    /\ pc = "done"
    /\ host.kind \in {"BrowsableHandler", "BrowsableDurableObject", "Browsable"}
    /\ pc' = IF host.kind = "Browsable" THEN "handled" ELSE "returned"
    /\ UNCHANGED <<options, request, response, authResult, bodyRead,
                   validated, queue, results, execLog, db, awaited,
                   concurrent, remote, runs, host>>

\* BrowsableHandler.fetch after its await: null becomes a 404, anything else
\* is handed on; an exception of browsableRequest goes through
HandlerReturn ==
    /\ pc = "done"
    /\ host.kind \in {"BrowsableHandler", "BrowsableDurableObject", "Browsable"}
    /\ response' = IF response = NullSentinel
                   THEN Response(404, <<>>, TextBody("Not found"))
                   ELSE response
    /\ pc' = IF host.kind = "Browsable" THEN "handled" ELSE "returned"
    /\ UNCHANGED <<options, request, authResult, bodyRead, validated, queue,
                   results, execLog, db, awaited, concurrent, remote, runs,
                   host>>

\* the fetch of the class Browsable returns, after its await of the
\* handler: a 404 is replaced by what the parent's fetch answers, when the
\* parent has one
DecoratorReturn ==
    /\ pc = "handled"
    /\ response' = IF /\ response.kind = "response"
                      /\ response.status = 404
                      /\ host.parentFetch
                   THEN [kind |-> "parent"]
                   ELSE response
    /\ pc' = "returned"
    /\ UNCHANGED <<options, request, authResult, bodyRead, validated, queue,
                   results, execLog, db, awaited, concurrent, remote, runs,
                   host>>

\* studio(): the credentials are checked when options.basicAuth is given;
\* a GET gets a page, a POST with a query or a transaction command is
\* forwarded to __studio of the object
StudioHelper(requests) ==
    /\ pc = "idle"
    /\ host.kind = "studio"
    /\ \E r \in requests :
        LET checked == checkCredentials(r, options)
            gate == IF ~options.basicAuth.configured THEN NullSentinel
                    ELSE IF checked.kind = "response"
                    THEN Response(401, challengeHeader, checked.body)
                    ELSE checked
            forwarded == /\ gate = NullSentinel
                         /\ r.method = "POST"
                         /\ r.body.json
                         /\ r.body.type \in {"query", "transaction"}
        IN  /\ request' = r
            /\ authResult' = gate
            /\ bodyRead' = (gate = NullSentinel /\ r.method = "POST")
            /\ pc' = IF forwarded THEN "rpcCommand" ELSE "returned"
            /\ response' =
                   IF gate # NullSentinel THEN gate
                   ELSE IF r.method = "GET"
                   THEN Response(200, "Content-Type" :> "text/html",
                                 [type |-> "html",
                                  page |-> "createHomepageInterface"])
                   ELSE IF r.method # "POST"
                   THEN Response(200, <<>>, TextBody("Method not allowed"))
                   ELSE IF ~r.body.json THEN Threw(<<"SyntaxError">>)
                   ELSE IF forwarded THEN response
                   ELSE ResponseJson([error |-> JString(<<"Invalid request">>)])
    /\ UNCHANGED <<options, validated, queue, results, execLog, db, awaited,
                   concurrent, remote, runs, host>>

\* studio() after its await of __studio: the result, or the message of the
\* exception, in a 200
StudioHelperRespond ==
    /\ pc = "done"
    /\ host.kind = "studio"
    /\ response' = IF response.kind = "threw"
                   THEN ResponseJson([error |-> JString(response.error)])
                   ELSE ResponseJson([result |-> response.value])
    /\ pc' = "returned"
    /\ UNCHANGED <<options, request, authResult, bodyRead, validated, queue,
                   results, execLog, db, awaited, concurrent, remote, runs,
                   host>>

-----------------------------------------------------------------------------
(* Specifications *)

InitWith(optionSet) ==
    /\ options \in optionSet
    /\ request = NoRequest
    /\ pc = "idle"
    /\ response = Pending
    /\ authResult = NotCalled
    /\ bodyRead = FALSE
    /\ validated = <<>>
    /\ queue = <<>>
    /\ results = <<>>
    /\ execLog = <<>>
    /\ db = 0
    /\ awaited = NoCursor
    /\ concurrent = 0
    /\ remote = NoRemote
    /\ runs = <<>>
    /\ host = [kind |-> "function", sql |-> TRUE, parentFetch |-> FALSE]

Init == InitWith(GatewayOptions)

Next ==
    \/ Arrive(GatewayRequests)
    \/ Dispatch
    \/ RawQuery
    \/ RawExecute
    \/ RawRealize
    \/ RawRespond
    \/ StudioCommand
    \/ StudioExecute
    \/ StudioRealize
    \/ StudioRespond

\* the gateway: one request, from its arrival to its response
Spec == Init /\ [][Next]_vars

InitAuth == InitWith(AuthOptions)

NextAuth ==
    \/ Arrive(AuthRequests)
    \/ Dispatch

\* the auth gate over every configured pair and every presented header
SpecAuth == InitAuth /\ [][NextAuth]_vars

InitBatch == InitWith(BatchOptions)

NextBatch ==
    \/ Arrive(BatchRequests)
    \/ Dispatch
    \/ RawQuery
    \/ RawExecute
    \/ RawRealize
    \/ RawRespond
    \/ StudioCommand
    \/ StudioExecute
    \/ StudioRealize
    \/ StudioRespond
    \/ ConcurrentWrite

\* long batches against an engine that other requests write to meanwhile
SpecBatch == InitBatch /\ [][NextBatch]_vars

InitCursor == InitWith({defaultOptions})

NextCursor ==
    \/ Construct(RemoteStatements)
    \/ Resolve
    \/ Read
    \/ ReadReturn

\* one remote cursor, its resolution and the read calls made on it
SpecCursor == InitCursor /\ [][NextCursor]_vars

NextStudio ==
    \/ Arrive(StudioRequests)
    \/ Dispatch
    \/ StudioCommand
    \/ StudioExecute
    \/ StudioRealize
    \/ StudioRespond
    \/ StudioRpc(RpcCommands)
    \/ StudioRpcCommand
    \/ StudioRpcExecute
    \/ StudioRpcRealize
    \/ StudioRpcReturn

\* the two ways to a studio command: the studio route of browsableRequest
\* and the RPC method of the decorator
SpecStudio == Init /\ [][NextStudio]_vars

InitHost ==
    /\ options \in [dangerouslyDisableAuth : BOOLEAN,
                    basicAuth : {NoBasicAuth, adminAuth},
                    disableStudio : {FALSE},
                    validator : {NoValidator,
                                 Validator({"INSERT INTO t VALUES (1)"})}]
    /\ request = NoRequest
    /\ pc = "idle"
    /\ response = Pending
    /\ authResult = NotCalled
    /\ bodyRead = FALSE
    /\ validated = <<>>
    /\ queue = <<>>
    /\ results = <<>>
    /\ execLog = <<>>
    /\ db = 0
    /\ awaited = NoCursor
    /\ concurrent = 0
    /\ remote = NoRemote
    /\ runs = <<>>
    /\ host \in Hosts

NextHost ==
    \/ HostFetch(HostRequests)
    \/ Dispatch
    \/ RawQuery
    \/ RawExecute
    \/ RawRealize
    \/ RawRespond
    \/ StudioCommand
    \/ StudioExecute
    \/ StudioRealize
    \/ StudioRespond
    \/ HandlerReturn
    \/ DecoratorReturn
    \/ StudioHelper(HostRequests)
    \/ StudioRpcCommand
    \/ StudioRpcExecute
    \/ StudioRpcRealize
    \/ StudioRpcReturn
    \/ StudioHelperRespond

\* one request to a host that wraps browsableRequest, or to studio()
SpecHost == InitHost /\ [][NextHost]_vars

NextIdem ==
    \/ Issue(RawRequests)
    \/ Dispatch
    \/ RawQuery
    \/ RawExecute
    \/ RawRealize
    \/ RawRespond
    \/ Reissue

\* one raw-query request, answered and then sent again
SpecIdem == InitBatch /\ [][NextIdem]_vars

-----------------------------------------------------------------------------
(* Properties: vocabulary *)

\* the request's path ends with /query/raw or with /studio
OnRoute ==
    \/ EndsWith(request.path, queryRawRoute)
    \/ EndsWith(request.path, studioRoute)

\* browsableRequest has run up to its first await
Entered == pc \notin {"idle", "received"}

\* auth is required and credentials are configured
AuthConfigured ==
    ~options.dangerouslyDisableAuth /\ options.basicAuth.configured

\* the text after "Basic "
Payload(header) == SubSeq(header, Len(BasicPrefix) + 1, Len(header))

\* a header "Basic <base64>" whose payload decodes
Decodable(header) ==
    /\ header # Undefined
    /\ StartsWith(header, BasicPrefix)
    /\ ~AtobThrows(Payload(header))

\* a header that is present and is no "Basic base64(user:password)": another
\* scheme, no payload, a payload that is not base64, a payload without ':'
Malformed(header) ==
    /\ ~Falsy(header)
    /\ \/ ~Decodable(header)
       \/ ColonChar \notin {Atob(Payload(header))[i] :
                               i \in 1..Len(Atob(Payload(header)))}

\* a well-formed header for other credentials than the configured ones
WrongCredentials(header, basicAuth) ==
    /\ ~Falsy(header)
    /\ ~Malformed(header)
    /\ Atob(Payload(header)) #
           basicAuth.username \o <<ColonChar>> \o basicAuth.password

IsChallenge(r) ==
    /\ r.kind = "response"
    /\ r.status = 401
    /\ "WWW-Authenticate" \in DOMAIN r.headers

\* the statements of a raw-query body: the batch, or else the single one
RequestStatements(body) ==
    IF body.hasTransaction THEN body.transaction
    ELSE IF body.sql # NoText THEN <<body.sql>>
    ELSE <<>>

\* an authenticated POST on the raw-query route whose body has been parsed
RawPostParsed ==
    /\ EndsWith(request.path, queryRawRoute)
    /\ request.method = "POST"
    /\ bodyRead
    /\ request.body.json

-----------------------------------------------------------------------------
(* Properties *)

\* C1: on the raw-query route, when the configured validator rejects any
\* statement of the request (the empty statement included), the response is
\* a 400 and the execution adapter is not called.  The code skips validation
\* of a single falsy sql, so this is violated.
C1_RejectedRequestExecutesNothing ==
    (/\ RawPostParsed
     /\ options.validator.configured
     /\ \E i \in 1..Len(RequestStatements(request.body)) :
            ~validator(options, RequestStatements(request.body)[i]).isValid)
    => /\ execLog = <<>>
       /\ pc = "done" => (response.kind = "response" /\ response.status = 400)

\* C2: with auth required, a statement reaches the execution adapter only
\* if the auth gate returned null, and never for a request whose credentials
\* are missing, malformed or wrong.  Violated through the credential
\* comparison of C5.
C2_NoExecutionWithoutValidCredentials ==
    (~options.dangerouslyDisableAuth /\ execLog # <<>>)
    => /\ authResult = NullSentinel
       /\ options.basicAuth.configured
       /\ ~Falsy(request.authorization)
       /\ ~Malformed(request.authorization)
       /\ ~WrongCredentials(request.authorization, options.basicAuth)

\* C3: auth required and configured, a route's path, a method other than
\* OPTIONS, no Authorization header: the answer is a 401 with the
\* WWW-Authenticate challenge.
C3_MissingHeaderIsChallenged ==
    (/\ AuthConfigured
     /\ OnRoute
     /\ request.method # "OPTIONS"
     /\ request.authorization = Undefined
     /\ Entered)
    => /\ pc = "done"
       /\ IsChallenge(response)

C3_Witness ==
    /\ AuthConfigured
    /\ EndsWith(request.path, queryRawRoute)
    /\ request.method = "POST"
    /\ request.authorization = Undefined
    /\ pc = "done"
    /\ IsChallenge(response)

\* C4 as stated, for the headers whose decoded payload holds one ':' (a
\* user name and a password without ':'): a header for credentials other
\* than the configured ones is answered by a 401 without the
\* WWW-Authenticate header.
C4_MismatchHasNoChallenge ==
    (/\ AuthConfigured
     /\ WrongCredentials(request.authorization, options.basicAuth)
     /\ Len(Split(Atob(Payload(request.authorization)), ColonChar)) = 2
     /\ Entered)
    => /\ response.kind = "response"
       /\ response.status = 401
       /\ "WWW-Authenticate" \notin DOMAIN response.headers

\* C4 as amended: when the auth gate rejects a well-formed header for
\* credentials other than the configured ones, its answer is the 401
\* "Invalid credentials" and carries the WWW-Authenticate header; every 401
\* of the auth gate carries it.
C4_MismatchIsChallengedToo ==
    /\ (/\ AuthConfigured
        /\ WrongCredentials(request.authorization, options.basicAuth)
        /\ authResult \notin {NotCalled, NullSentinel})
       => /\ IsChallenge(authResult)
          /\ authResult.body = TextBody("Invalid credentials")
          /\ response = authResult
    /\ (authResult.kind = "response" /\ authResult.status = 401)
       => IsChallenge(authResult)

C4_Witness ==
    /\ AuthConfigured
    /\ options.basicAuth.password # <<>>
    /\ request.authorization =
           BasicHeader(options.basicAuth.username \o <<ColonChar>>)
    /\ pc = "done"
    /\ IsChallenge(response)
    /\ response.body = TextBody("Invalid credentials")

\* C5: with credentials configured, the auth gate returns null for the
\* header Basic base64(username:password) of exactly the configured pair and
\* for no other header.  Violated: the decoded text is split at every ':'.
C5_ExactlyTheConfiguredPairPasses ==
    (AuthConfigured /\ authResult # NotCalled)
    => (authResult = NullSentinel
        <=> request.authorization = CredentialsHeader(options.basicAuth))

\* C6: with credentials configured, a present but malformed header is
\* answered by the 401 challenge; the auth gate neither throws nor lets the
\* request pass.  Violated: atob throws on a payload that is not base64.
C6_MalformedHeaderIsChallenged ==
    (/\ AuthConfigured
     /\ Malformed(request.authorization)
     /\ Entered)
    => /\ IsChallenge(authResult)
       /\ response = authResult

\* C7: auth required and no credentials configured: every request on a
\* route's path with a method other than OPTIONS is answered by a 500, the
\* auth gate does not return null, and no statement is executed.
C7_UnconfiguredFailsClosed ==
    (/\ ~options.dangerouslyDisableAuth
     /\ ~options.basicAuth.configured
     /\ OnRoute
     /\ request.method # "OPTIONS"
     /\ Entered)
    => /\ pc = "done"
       /\ response.kind = "response"
       /\ response.status = 500
       /\ authResult # NullSentinel
       /\ execLog = <<>>
       /\ ~bodyRead

C7_Witness ==
    /\ options = defaultOptions
    /\ EndsWith(request.path, queryRawRoute)
    /\ request.method = "POST"
    /\ request.authorization = CredentialsHeader(adminAuth)
    /\ request.body = SqlBody("SELECT 1")
    /\ pc = "done"
    /\ response.kind = "response"
    /\ response.status = 500

\* C8: with dangerouslyDisableAuth set the auth gate returns null whatever
\* the header and whether or not credentials are configured; under the
\* default options the flag is off and the auth gate does not return null.
C8_DisabledAuthAlwaysPasses ==
    /\ (options.dangerouslyDisableAuth /\ authResult # NotCalled)
       => authResult = NullSentinel
    /\ (options.dangerouslyDisableAuth /\ OnRoute /\ Entered
        /\ request.method # "OPTIONS")
       => authResult = NullSentinel
    /\ ~defaultOptions.dangerouslyDisableAuth
    /\ (options = defaultOptions /\ authResult # NotCalled)
       => authResult # NullSentinel

C8_Witness ==
    /\ options.dangerouslyDisableAuth
    /\ options.basicAuth.configured
    /\ request.authorization = NotBase64Header
    /\ authResult = NullSentinel
    /\ execLog # <<>>

\* C9: an OPTIONS request on a route's path is answered by a 204 with
\* exactly the CORS headers, whatever the options and the header; the auth
\* gate is not called, the body is not read and nothing is executed.
C9_PreflightBypassesAuth ==
    (OnRoute /\ request.method = "OPTIONS" /\ Entered)
    => /\ pc = "done"
       /\ response.kind = "response"
       /\ response.status = 204
       /\ response.headers = corsHeaders
       /\ authResult = NotCalled
       /\ ~bodyRead
       /\ execLog = <<>>

C9_Witness ==
    /\ EndsWith(request.path, studioRoute)
    /\ request.method = "OPTIONS"
    /\ ~options.dangerouslyDisableAuth
    /\ ~options.basicAuth.configured
    /\ pc = "done"
    /\ response.kind = "response"
    /\ response.status = 204

\* C10: a request whose path ends with neither /query/raw nor /studio gets
\* null, whatever its method and the options; the auth gate is not called,
\* the body is not read and nothing is executed.
C10_UnmatchedPathFallsThrough ==
    (~OnRoute /\ Entered)
    => /\ pc = "done"
       /\ response = NullSentinel
       /\ authResult = NotCalled
       /\ ~bodyRead
       /\ execLog = <<>>

C10_Witness ==
    /\ request.path = <<"studio", "db">>
    /\ request.method = "OPTIONS"
    /\ ~options.dangerouslyDisableAuth
    /\ pc = "done"
    /\ response = NullSentinel

\* a supported route asked with a method or shape it does not serve: the
\* studio route while studio is disabled, the raw-query route with a method
\* other than POST, the studio route with a method other than GET and POST
UnsupportedCombination ==
    \/ /\ EndsWith(request.path, studioRoute)
       /\ options.disableStudio
       /\ request.method \in {"GET", "POST"}
    \/ /\ EndsWith(request.path, queryRawRoute)
       /\ request.method \notin {"POST", "OPTIONS"}
    \/ /\ EndsWith(request.path, studioRoute)
       /\ request.method \notin {"GET", "POST", "OPTIONS"}

\* C11 as stated: a request on a supported route with an unsupported
\* method/shape combination, which the auth gate lets pass, gets the
\* not-handled sentinel null, and no statement executes.
C11_UnsupportedCombinationGetsSentinel ==
    (UnsupportedCombination /\ Entered /\ authResult = NullSentinel)
    => /\ response = NullSentinel
       /\ execLog = <<>>

\* C11: a request on a supported route with an unsupported method/shape
\* combination never gets the not-handled sentinel: when the auth gate lets
\* it pass, it is answered with a 404 response of body "Not found" and no
\* header; its body is not read and no statement executes.
C11_UnsupportedCombinationIsNotFound ==
    (UnsupportedCombination /\ Entered)
    => /\ pc = "done"
       /\ response # NullSentinel
       /\ ~bodyRead
       /\ execLog = <<>>
       /\ authResult = NullSentinel
            => /\ response.kind = "response"
               /\ response.status = 404
               /\ response.body = TextBody("Not found")
               /\ response.headers = <<>>

C11_Witness ==
    /\ EndsWith(request.path, studioRoute)
    /\ options.disableStudio
    /\ request.method = "POST"
    /\ request.body.json
    /\ authResult = NullSentinel
    /\ pc = "done"
    /\ response.kind = "response"
    /\ response.status = 404

\* the response is a JSON envelope
IsEnvelope(r) == r.kind = "response" /\ r.body.type = "json"

\* the envelope has the key, with a value other than null
Populated(r, key) ==
    key \in DOMAIN r.body.json /\ r.body.json[key] # JNull

\* C12: every JSON envelope the raw-query and studio routes answer with has
\* exactly one of result / error present and non-null: never both, never
\* neither.
C12_EnvelopeHasExactlyOneOfResultAndError ==
    IsEnvelope(response)
    => (Populated(response, "result") <=> ~Populated(response, "error"))

C12_Witness ==
    /\ RawPostParsed
    /\ pc = "done"
    /\ IsEnvelope(response)
    /\ response.status = 400
    /\ DOMAIN response.body.json = {"result", "error"}
    /\ response.body.json["result"] = JNull
    /\ Populated(response, "error")

\* the request carries a batch: a raw-query transaction or a studio
\* transaction
IsBatchRequest ==
    \/ EndsWith(request.path, queryRawRoute) /\ request.body.hasTransaction
    \/ EndsWith(request.path, studioRoute) /\ request.body.type = "transaction"

TheBatch ==
    IF EndsWith(request.path, queryRawRoute) THEN request.body.transaction
    ELSE request.body.statements

\* the position of the first statement of the batch that the engine rejects,
\* 0 if there is none
FirstFailing(batch) ==
    IF \E i \in 1..Len(batch) : exec(batch[i], 0).threw
    THEN CHOOSE i \in 1..Len(batch) :
            /\ exec(batch[i], 0).threw
            /\ \A j \in 1..(i - 1) : ~exec(batch[j], 0).threw
    ELSE 0

\* C13: in a batch whose statement at position k is the first to fail at
\* execution, the execution adapter is handed the statements 1..k in order
\* and nothing more: once statement k has been attempted the request is
\* over, the statements before k have been executed and what they wrote is
\* still in the engine (no rollback), statement k has been attempted once,
\* and no statement after k is ever passed to the execution adapter.
C13_FailureStopsTheBatchWithoutRollback ==
    (IsBatchRequest /\ FirstFailing(TheBatch) > 0)
    => LET k == FirstFailing(TheBatch)
       IN  /\ Len(execLog) <= k
           /\ execLog = SubSeq(TheBatch, 1, Len(execLog))
           /\ Len(execLog) = k
                => /\ pc = "done"
                   /\ db = Written(SubSeq(TheBatch, 1, k - 1)) + concurrent

C13_Witness ==
    /\ EndsWith(request.path, queryRawRoute)
    /\ request.body.hasTransaction
    /\ request.body.transaction =
           <<"INSERT INTO t VALUES (1)", "SELEC", "SELECT COUNT(*) FROM t">>
    /\ pc = "done"
    /\ execLog = <<"INSERT INTO t VALUES (1)", "SELEC">>
    /\ concurrent = 1
    /\ db = 2

\* the item is what the route makes of statement sql, executed on an engine
\* in one of the states it has been in
IsItemOf(item, sql) ==
    \E d \in 0..db :
        /\ ~exec(sql, d).threw
        /\ item = IF EndsWith(request.path, queryRawRoute)
                  THEN executeQuery(exec(sql, d).cursor)
                  ELSE executeQueryForStudio(exec(sql, d).cursor)

\* the request has been answered with a result
Succeeded ==
    /\ pc = "done"
    /\ IsEnvelope(response)
    /\ Populated(response, "result")

\* C14: the statements of a batch are handed to the execution adapter in
\* array order, a statement is started only when the rows of every statement
\* started before it have been realized (at most one cursor is awaited at a
\* time), whatever other requests write meanwhile; a batch that succeeds is
\* answered with one item per statement, item i being the result of
\* statement i.
C14_BatchRunsInArrayOrderOneItemPerStatement ==
    IsBatchRequest
    => /\ Len(execLog) <= Len(TheBatch)
       /\ execLog = SubSeq(TheBatch, 1, Len(execLog))
       /\ Len(results) <= Len(execLog)
       /\ Len(execLog) <= Len(results) + 1
       /\ \A i \in 1..Len(results) : IsItemOf(results[i], TheBatch[i])
       /\ awaited # NoCursor => Len(execLog) = Len(results) + 1
       /\ Succeeded
            => /\ execLog = TheBatch
               /\ Len(results) = Len(TheBatch)
               /\ response.body.json["result"] = JValue(results)

C14_Witness ==
    /\ EndsWith(request.path, queryRawRoute)
    /\ request.body.hasTransaction
    /\ request.body.transaction =
           <<"INSERT INTO t VALUES (1)", "SELECT COUNT(*) FROM t",
             "SELECT COUNT(*) FROM t">>
    /\ Succeeded
    /\ concurrent = 2
    /\ Len(results) = 3
    /\ results[2].rows = << <<1>> >>
    /\ results[3].rows = << <<3>> >>

\* the execution adapter threw on the statement last handed to it
ExecutionFailed ==
    /\ Len(execLog) > 0
    /\ exec(execLog[Len(execLog)], 0).threw

\* C15: when the execution adapter throws on a statement of a raw-query
\* POST that passed the auth gate, the request ends with an envelope whose
\* error is the text of the exception and whose result is null, and the
\* failing statement has been handed to the adapter once. (Stated for the
\* bodies that carry a statement.)
C15_RawExecutionFailureIsAnErrorEnvelope ==
    (/\ RawPostParsed
     /\ request.body.hasTransaction \/ Truthy(request.body.sql)
     /\ ExecutionFailed)
    => /\ pc = "done"
       /\ IsEnvelope(response)
       /\ ~Populated(response, "result")
       /\ "error" \in DOMAIN response.body.json
       /\ response.body.json["error"] =
              JString(exec(execLog[Len(execLog)], 0).error)
       /\ Cardinality({i \in 1..Len(execLog) :
                          exec(execLog[i], 0).threw}) = 1

\* the validator has been called, and has rejected the statement it was
\* called with last
ValidatorRejected ==
    /\ Len(validated) > 0
    /\ validated[Len(validated)] \in options.validator.rejects

\* C16 as stated: when the validator rejects a statement with error text E,
\* the error field of the response is E alone.
C16_ValidationErrorIsVerbatim ==
    ValidatorRejected
    => /\ IsEnvelope(response)
       /\ Populated(response, "error")
       /\ response.body.json["error"] = JString(<<options.validator.error>>)

\* C16: when the validator rejects a statement with error text E, the
\* request is over and the error field of the response, on the raw-query
\* and on the studio route, is the text "Invalid query: " followed by E.
C16_ValidationErrorIsPrefixed ==
    ValidatorRejected
    => /\ pc = "done"
       /\ IsEnvelope(response)
       /\ Populated(response, "error")
       /\ response.body.json["error"] =
              JString(<<"Invalid query: ", options.validator.error>>)

C16_Witness ==
    /\ EndsWith(request.path, studioRoute)
    /\ request.body.type = "transaction"
    /\ Len(request.body.statements) = 2
    /\ validated = request.body.statements
    /\ ValidatorRejected
    /\ pc = "done"
    /\ IsEnvelope(response)
    /\ response.body.json["error"] = JString(<<"Invalid query: ", "E">>)

\* a query or transaction command has been taken up, by the studio route
\* (a POST whose body has been parsed) or by the RPC method __studio
ViaStudioRoute ==
    /\ EndsWith(request.path, studioRoute)
    /\ request.method = "POST"
    /\ bodyRead
    /\ request.body.json

ViaStudioRpc == request.method = "RPC" /\ pc \in {"rpcExec", "done"}

IsStudioCommand ==
    /\ ViaStudioRoute \/ ViaStudioRpc
    /\ request.body.type \in {"query", "transaction"}

\* the statements of the command
CommandStatements ==
    IF request.body.type = "query" THEN <<request.body.statement>>
    ELSE request.body.statements

\* C17: with a validator configured, a studio command (on the studio POST
\* route and in the RPC method __studio) executes a statement only after
\* every statement of the command has been validated and accepted; if the
\* validator rejects any statement of the command, no statement executes,
\* the route answers HTTP 200 with an error field, and the RPC method
\* throws.
C17_StudioValidatesAllBeforeExecuting ==
    (IsStudioCommand /\ options.validator.configured)
    => /\ execLog # <<>>
            => /\ validated = CommandStatements
               /\ \A i \in 1..Len(validated) :
                      validated[i] \notin options.validator.rejects
       /\ (\E i \in 1..Len(CommandStatements) :
               CommandStatements[i] \in options.validator.rejects)
            => /\ execLog = <<>>
               /\ pc = "done"
               /\ ViaStudioRoute
                    => /\ IsEnvelope(response)
                       /\ response.status = 200
                       /\ Populated(response, "error")
               /\ ViaStudioRpc => response.kind = "threw"

C17_Witness ==
    /\ ViaStudioRoute
    /\ request.body.type = "transaction"
    /\ request.body.statements = <<"SELECT 1", "INSERT INTO t VALUES (1)">>
    /\ options.validator.rejects = {"INSERT INTO t VALUES (1)"}
    /\ validated = request.body.statements
    /\ execLog = <<>>
    /\ pc = "done"
    /\ response.status = 200
    /\ Populated(response, "error")

\* the same rejection, met by the RPC method
C17_WitnessRpc ==
    /\ ViaStudioRpc
    /\ request.body.type = "transaction"
    /\ request.body.statements = <<"SELECT 1", "INSERT INTO t VALUES (1)">>
    /\ options.validator.rejects = {"INSERT INTO t VALUES (1)"}
    /\ validated = request.body.statements
    /\ execLog = <<>>
    /\ response.kind = "threw"

\* C18: every POST to the enabled studio route that passed the auth gate is
\* answered with HTTP 200 and a JSON body that is {result} or {error};
\* none ends in another status or in an exception.
C18_StudioPostIsAlwaysAnswered200 ==
    (/\ EndsWith(request.path, studioRoute)
     /\ request.method = "POST"
     /\ ~options.disableStudio
     /\ authResult = NullSentinel
     /\ pc = "done")
    => /\ IsEnvelope(response)
       /\ response.status = 200
       /\ DOMAIN response.body.json \in {{"result"}, {"error"}}

\* C19: when a studio statement produces two columns both named id, the
\* first header keeps the name id, the second is renamed to __id_0, both
\* keep the displayName id, and the header names are pairwise distinct.
C19_TwinColumnIsRenamed ==
    (/\ EndsWith(request.path, studioRoute)
     /\ request.method = "POST"
     /\ request.body.type = "query"
     /\ request.body.statement = "SELECT 1 AS id, 2 AS id"
     /\ Succeeded)
    => LET headers == response.body.json["result"].v.headers
       IN  /\ Len(headers) = 2
           /\ headers[1].name = <<"id">>
           /\ headers[2].name = <<"__", "id", "_", 0>>
           /\ headers[1].displayName = "id"
           /\ headers[2].displayName = "id"
           /\ \A i, j \in 1..Len(headers) :
                  i # j => headers[i].name # headers[j].name

\* a parsed raw-query body with both a transaction and a sql field
HasTransactionAndSql ==
    /\ RawPostParsed
    /\ request.body.hasTransaction \/ request.body.transactionScalar # "none"
    /\ request.body.sql # NoText

\* the statements of the transaction field
TransactionStatements ==
    IF request.body.hasTransaction THEN request.body.transaction ELSE <<>>

\* C20 as stated: when a raw-query body has both a transaction and a sql
\* field, the validator is handed statements of the transaction only, and
\* so is the execution adapter: the sql statement is handed to neither.
C20_TransactionTakesPrecedenceOverSql ==
    HasTransactionAndSql
    => LET t == TransactionStatements
       IN  /\ Len(validated) <= Len(t)
           /\ validated = SubSeq(t, 1, Len(validated))
           /\ Len(execLog) <= Len(t)
           /\ execLog = SubSeq(t, 1, Len(execLog))

\* What does hold beside C20: when a raw-query body has a sql field and a
\* transaction field that is an array, the validator is handed the statements of the transaction
\* in order (up to the first it rejects) and the execution adapter is handed
\* the statements of the transaction in order (up to the first that fails):
\* a request that succeeds has validated, if a validator is configured, and
\* executed exactly the transaction, and the sql statement is handed to
\* neither. When the transaction field is false or "" instead, the two
\* phases part: the validator is handed the sql statement (when it is not
\* empty), and the execution adapter is handed nothing.
C20_ArrayTransactionTakesPrecedenceOverSql ==
    HasTransactionAndSql
    => IF request.body.hasTransaction
       THEN LET t == request.body.transaction
            IN  /\ Len(validated) <= Len(t)
                /\ validated = SubSeq(t, 1, Len(validated))
                /\ Len(execLog) <= Len(t)
                /\ execLog = SubSeq(t, 1, Len(execLog))
                /\ execLog # <<>> /\ options.validator.configured
                     => validated = t
                /\ Succeeded => execLog = t
       ELSE /\ execLog = <<>>
            /\ validated =
                   IF options.validator.configured /\ request.body.sql # ""
                   THEN <<request.body.sql>> ELSE <<>>

C20_ArrayWitness ==
    /\ HasTransactionAndSql
    /\ request.body.sql = "SELECT 1"
    /\ request.body.transaction = <<"", "INSERT INTO t VALUES (1)">>
    /\ options.validator.configured
    /\ validated = request.body.transaction
    /\ execLog = request.body.transaction
    /\ Succeeded

\* the sql statement validated beside a transaction field that is ""
C20_ScalarWitness ==
    /\ HasTransactionAndSql
    /\ request.body.transactionScalar = "emptyString"
    /\ validated = <<"SELECT 1">>
    /\ execLog = <<>>
    /\ Succeeded

-----------------------------------------------------------------------------
(* Properties of the remote cursor *)

\* the calls that are over, by position in the log
Returns == 1..Len(remote.log)

\* the cursor got the gateway's answer to its statement from an engine
\* that holds d rows
AnsweredFrom(d) ==
    /\ remote.isResolved
    /\ ~exec(remote.query, d).threw
    /\ remote.reply =
           Envelope(NoText, <<executeQuery(exec(remote.query, d).cursor)>>)

\* C21: the raw-query item the gateway's executeQuery builds over a remote
\* cursor is the item it builds over a local engine that returns the same
\* data: the same columns, the same rows, the same meta.
C21_RemoteItemEqualsLocalItem ==
    \A d \in 0..MaxRows : \A i \in Returns :
        (/\ AnsweredFrom(d)
         /\ remote.log[i].method = "executeQuery"
         /\ remote.log[i].kind = "value")
        => remote.log[i].value = executeQuery(exec(remote.query, d).cursor)

\* C22: a constructed cursor has made its one call of stub.fetch, whether
\* or not a read method has been called on it: the request leaves during
\* construction, not with the first read.
C22_ConstructionSendsTheRequest ==
    remote.constructed => remote.fetches = 1

\* a cursor that resolved without any read having been called
C22_Witness ==
    /\ remote.constructed
    /\ remote.fetches = 1
    /\ remote.isResolved
    /\ ~remote.error.isError
    /\ remote.pending = <<>>
    /\ remote.log = <<>>

\* C23: whatever read methods are called on a cursor, in whatever number
\* and order, before or after it resolved, stub.fetch has been called once
\* for it; any two toArray() calls end alike, any two raw() calls end
\* alike, and the rows of a raw() are the values of the rows of a toArray().
C23_OneFetchAndEqualReads ==
    remote.constructed
    => /\ remote.fetches = 1
       /\ \A i, j \in Returns :
              /\ remote.log[i].method = remote.log[j].method
              /\ remote.log[i].method \in {"toArray", "raw"}
              => remote.log[i] = remote.log[j]
       /\ \A i, j \in Returns :
              /\ remote.log[i].method = "toArray"
              /\ remote.log[j].method = "raw"
              => /\ remote.log[i].kind = remote.log[j].kind
                 /\ remote.log[i].kind = "value"
                      => remote.log[j].value =
                             [r \in 1..Len(remote.log[i].value) |->
                                 ObjectValues(remote.log[i].value[r])]

C23_Witness ==
    /\ remote.fetches = 1
    /\ Len(remote.log) = 3
    /\ remote.log[1].method = "toArray"
    /\ remote.log[2].method = "raw"
    /\ remote.log[3].method = "toArray"
    /\ remote.log[1].kind = "value"
    /\ Len(remote.log[1].value) = 2
    /\ remote.log[3] = remote.log[1]

\* C24: a resolved cursor stays resolved; error and results change only in
\* the step that resolves the cursor, from null and from the empty list;
\* and a cursor never has both an error and rows.
C24_ResolvesOnceErrorOrRows ==
    [][/\ remote.isResolved => remote'.isResolved
       /\ remote'.error # remote.error
            => /\ ~remote.isResolved
               /\ remote'.isResolved
               /\ remote.error = NoError
       /\ remote'.results # remote.results
            => /\ ~remote.isResolved
               /\ remote'.isResolved
               /\ remote.results = <<>>
       /\ ~(remote'.error.isError /\ remote'.results # <<>>)
       /\ remote'.error.isError => remote'.isResolved]_vars

\* a cursor resolved by an envelope that has an error and rows
C24_Witness ==
    /\ remote.isResolved
    /\ remote.reply.json
    /\ remote.reply.data.error = "E"
    /\ Len(remote.reply.data.result) > 0
    /\ Len(remote.reply.data.result[1].rows) > 0
    /\ remote.error = ErrorOf(<<"E">>)
    /\ remote.results = <<>>

\* C25: once the cursor is resolved, no step (no call and no return of
\* toArray, one, raw, rawIterate, next) changes its column names, its rows,
\* its counters or its error.
C25_ResolvedCursorIsFrozen ==
    [][remote.isResolved
       => /\ remote'.columnNames = remote.columnNames
          /\ remote'.results = remote.results
          /\ remote'.rowsRead = remote.rowsRead
          /\ remote'.rowsWritten = remote.rowsWritten
          /\ remote'.error = remote.error]_vars

\* a resolved cursor with rows, after a toArray(), a next() and a one()
C25_Witness ==
    /\ remote.isResolved
    /\ Len(remote.results) = 2
    /\ Len(remote.log) = 3
    /\ remote.log[1].method = "toArray"
    /\ remote.log[2].method = "next"
    /\ remote.log[3].method = "one"
    /\ remote.log[3].value = remote.results[1]

\* stub.fetch failed: it rejected, its response was not ok, or the envelope
\* has an error that is neither missing nor empty
Failed(reply) ==
    \/ reply.kind = "rejected"
    \/ ~reply.ok
    \/ reply.json /\ reply.data.error \notin {NoText, ""}

\* C26: a cursor comes out of its constructor without an error, and no
\* read ends before the cursor is resolved; when stub.fetch failed, the
\* resolved cursor has the error and no rows, and every read call that
\* ends, of every method, throws that error.
C26_FailureIsThrownByEveryRead ==
    /\ remote.constructed /\ ~remote.isResolved
         => remote.error = NoError /\ remote.log = <<>>
    /\ remote.isResolved /\ Failed(remote.reply)
         => /\ remote.error.isError
            /\ remote.results = <<>>
            /\ \A i \in Returns :
                   /\ remote.log[i].kind = "threw"
                   /\ remote.log[i].value = remote.error.message

C26_Witness ==
    /\ remote.isResolved
    /\ remote.reply = NotOk("Unauthorized")
    /\ remote.error = ErrorOf(<<"SQL execution failed: ", "Unauthorized">>)
    /\ Len(remote.log) = 3
    /\ remote.log[1].method = "toArray"
    /\ remote.log[2].method = "next"
    /\ remote.log[3].method = "toArray"
    /\ \A i \in Returns : remote.log[i].kind = "threw"

\* the cursor resolved on an envelope without error that has a first result
Succeeded1 ==
    /\ remote.isResolved
    /\ remote.reply.kind = "response"
    /\ remote.reply.ok
    /\ remote.reply.json
    /\ remote.reply.data.error \in {NoText, ""}
    /\ Len(remote.reply.data.result) > 0

\* the last position at which the column name occurs in columns
LastPosition(columns, name) ==
    CHOOSE i \in 1..Len(columns) :
        /\ columns[i] = name
        /\ \A j \in 1..Len(columns) : columns[j] = name => j <= i

\* C27 as stated: after a successful response whose first result has
\* columns C, rows R and meta M, every toArray() yields one object per row
\* of R, in order, in which C[i] has the value row[i] for every i;
\* columnNames is C and rowsRead / rowsWritten are M's counters.
C27_ToArrayMapsEveryColumn ==
    Succeeded1
    => LET result == remote.reply.data.result[1]
       IN  /\ remote.columnNames = result.columns
           /\ remote.rowsRead = result.meta.rows_read
           /\ remote.rowsWritten = result.meta.rows_written
           /\ \A k \in Returns :
                  remote.log[k].method = "toArray"
                  => /\ remote.log[k].kind = "value"
                     /\ Len(remote.log[k].value) = Len(result.rows)
                     /\ \A r \in 1..Len(result.rows) :
                        \A i \in 1..Len(result.columns) :
                            /\ HasProperty(remote.log[k].value[r],
                                           result.columns[i])
                            /\ GetProperty(remote.log[k].value[r],
                                           result.columns[i])
                                   = result.rows[r][i]

\* C27: after a successful response whose first result has columns C, rows
\* R and meta M, every toArray() yields one object per row of R, in order,
\* whose keys are the names in C and in which a name has the value of the
\* row at the last position where C has that name (row[i] for C[i] when no
\* name occurs twice); columnNames is C and rowsRead / rowsWritten are M's
\* counters.
C27_ToArrayMapsLastColumnOfEachName ==
    Succeeded1
    => LET result == remote.reply.data.result[1]
       IN  /\ remote.columnNames = result.columns
           /\ remote.rowsRead = result.meta.rows_read
           /\ remote.rowsWritten = result.meta.rows_written
           /\ \A k \in Returns :
                  remote.log[k].method = "toArray"
                  => /\ remote.log[k].kind = "value"
                     /\ Len(remote.log[k].value) = Len(result.rows)
                     /\ \A r \in 1..Len(result.rows) :
                        LET obj == remote.log[k].value[r]
                        IN  /\ {obj[p][1] : p \in 1..Len(obj)}
                                   = {result.columns[i] :
                                         i \in 1..Len(result.columns)}
                            /\ Len(obj) = Cardinality({obj[p][1] :
                                                          p \in 1..Len(obj)})
                            /\ \A p \in 1..Len(obj) :
                                   obj[p][2] =
                                       result.rows[r][LastPosition(
                                           result.columns, obj[p][1])]

C27_Witness ==
    /\ Succeeded1
    /\ remote.query = "SELECT rowid FROM t"
    /\ remote.columnNames = <<"rowid">>
    /\ remote.rowsRead = 2
    /\ Len(remote.log) > 0
    /\ remote.log[1].method = "toArray"
    /\ remote.log[1].value = << << <<"rowid", 1>> >>, << <<"rowid", 2>> >> >>

\* C28: one() on a resolved cursor without error throws "No rows returned"
\* when the response carried no rows (an empty or missing result list
\* included), and otherwise returns the first row's object; it never
\* returns undefined.
C28_OneThrowsOrReturnsFirstRow ==
    (remote.isResolved /\ ~remote.error.isError)
    => \A k \in Returns :
           remote.log[k].method = "one"
           => LET rows ==
                      IF Len(remote.reply.data.result) = 0 THEN <<>>
                      ELSE remote.reply.data.result[1].rows
              IN  IF rows = <<>>
                  THEN /\ remote.log[k].kind = "threw"
                       /\ remote.log[k].value = <<"No rows returned">>
                  ELSE /\ remote.log[k].kind = "value"
                       /\ remote.log[k].value = remote.results[1]

C28_Witness ==
    /\ remote.isResolved
    /\ ~remote.error.isError
    /\ remote.reply.data.result = <<>>
    /\ Len(remote.log) > 0
    /\ remote.log[1] = Outcome("one", "threw", <<"No rows returned">>)

C28_WitnessFirstRow ==
    /\ remote.isResolved
    /\ ~remote.error.isError
    /\ Len(remote.results) = 2
    /\ Len(remote.log) > 0
    /\ remote.log[1] = Outcome("one", "value", << <<"rowid", 1>> >>)

\* the returns of next() in the log, in the order they happened
RECURSIVE NextReturns(_)
NextReturns(log) ==
    IF log = <<>> THEN <<>>
    ELSE IF Head(log).method = "next"
         THEN <<Head(log)>> \o NextReturns(Tail(log))
         ELSE NextReturns(Tail(log))

\* on a resolved cursor without error the k-th next() yields the k-th row of
\* the response and every next() after the last row reports done
NextYieldsEachRowOnceThenDone ==
    (remote.isResolved /\ ~remote.error.isError)
    => LET rows ==
               IF Len(remote.reply.data.result) = 0 THEN <<>>
               ELSE remote.reply.data.result[1].rows
           columns ==
               IF Len(remote.reply.data.result) = 0 THEN <<>>
               ELSE remote.reply.data.result[1].columns
           yielded == NextReturns(remote.log)
       IN  /\ remote.currentIndex
                  = IF Len(yielded) < Len(rows) THEN Len(yielded)
                    ELSE Len(rows)
           /\ \A k \in 1..Len(yielded) :
                  IF k <= Len(rows)
                  THEN /\ yielded[k].kind = "value"
                       /\ \A i \in 1..Len(columns) :
                              GetProperty(yielded[k].value,
                                  columns[LastPosition(columns, columns[i])])
                                  = rows[k][LastPosition(columns, columns[i])]
                  ELSE yielded[k].kind = "done"

\* C29: the read position of next() never decreases and stays within
\* 0..number of rows; a sequence of next() calls yields the rows of the
\* response in server order, each exactly once, and after the last row
\* every further next() returns done.
C29_NextOnlyAdvancesAndYieldsEachRowOnce ==
    [][/\ remote'.currentIndex >= remote.currentIndex
       /\ remote'.currentIndex <= Len(remote'.results)
       /\ NextYieldsEachRowOnceThenDone']_vars

C29_Witness ==
    /\ remote.isResolved
    /\ Len(remote.results) = 2
    /\ remote.currentIndex = 2
    /\ Len(remote.log) = 3
    /\ \A k \in 1..3 : remote.log[k].method = "next"
    /\ remote.log[1].kind = "value"
    /\ remote.log[1].value = << <<"rowid", 1>> >>
    /\ remote.log[2].kind = "value"
    /\ remote.log[2].value = << <<"rowid", 2>> >>
    /\ remote.log[3].kind = "done"

(* Properties of re-issued requests *)

-----------------------------------------------------------------------------
(* Properties of the routes and the entry points *)

\* C31: every response returned for a request on the raw-query route
\* carries the fixed CORS header set.  The 404 for a method the route does
\* not support carries no headers, so this is violated.
C31_RawRouteResponseCarriesCors ==
    (/\ pc = "done"
     /\ EndsWith(request.path, queryRawRoute)
     /\ response.kind = "response")
    => \A h \in DOMAIN corsHeaders :
           /\ h \in DOMAIN response.headers
           /\ response.headers[h] = corsHeaders[h]

\* an authenticated POST, answered, with a parsed body that gives its
\* statements as browsableRequest's routes expect them: on the raw-query
\* route an array `transaction` or else an `sql` field, on the enabled
\* studio route a query or a transaction command
CarriesStatements ==
    /\ pc = "done"
    /\ authResult = NullSentinel
    /\ request.method = "POST"
    /\ bodyRead
    /\ request.body.json
    /\ \/ /\ EndsWith(request.path, queryRawRoute)
          /\ request.body.transactionScalar = "none"
          /\ request.body.hasTransaction \/ request.body.sql # NoText
       \/ /\ EndsWith(request.path, studioRoute)
          /\ ~options.disableStudio
          /\ request.body.type \in {"query", "transaction"}

\* the statements of such a request
CarriedStatements ==
    IF EndsWith(request.path, queryRawRoute)
    THEN RequestStatements(request.body)
    ELSE CommandStatements

\* the response is an envelope whose error begins with "Invalid query: "
IsInvalidQuery(r) ==
    /\ IsEnvelope(r)
    /\ Populated(r, "error")
    /\ r.body.json["error"].t = "string"
    /\ Head(r.body.json["error"].v) = "Invalid query: "

\* C34 as stated: with no validator configured no response carries an
\* `Invalid query` error, and every statement of every authenticated
\* raw-query or studio request is passed to the execution adapter.
C34_NoValidatorExecutesEveryStatement ==
    ~options.validator.configured
    => /\ ~IsInvalidQuery(response)
       /\ CarriesStatements => execLog = CarriedStatements

\* C34: with no validator configured no response carries an `Invalid query`
\* error and nothing is handed to a validator; the statements of an
\* authenticated request are passed to the execution adapter in order, up
\* to and including the first whose execution fails, and all of them when
\* none fails.
C34_NoValidatorExecutesUpToFirstFailure ==
    ~options.validator.configured
    => /\ ~IsInvalidQuery(response)
       /\ validated = <<>>
       /\ CarriesStatements
            => LET k == FirstFailing(CarriedStatements)
               IN  execLog = IF k = 0 THEN CarriedStatements
                             ELSE SubSeq(CarriedStatements, 1, k)

C34_Witness ==
    /\ ~options.validator.configured
    /\ CarriesStatements
    /\ EndsWith(request.path, queryRawRoute)
    /\ execLog = <<"INSERT INTO t VALUES (1)", "">>
    /\ response.kind = "response"
    /\ response.status = 200

\* C36: in the studio result of a statement, headers holds one descriptor
\* per column in column order, and every row object holds under
\* headers[i].name the i-th positional value of that row, for every column
\* i, also when several columns have the same original name.  No column is
\* ever renamed (C19), so the later of two columns of one name overwrites
\* the earlier and this is violated.
C36_StudioRowHoldsEveryColumn ==
    (/\ EndsWith(request.path, studioRoute)
     /\ request.method = "POST"
     /\ request.body.type = "query"
     /\ Succeeded)
    => \E d \in 0..db :
        LET r == exec(request.body.statement, d)
            item == response.body.json["result"].v
        IN  /\ ~r.threw
            /\ Len(item.headers) = Len(r.cursor.columnNames)
            /\ \A i \in 1..Len(item.headers) :
                   item.headers[i].displayName = r.cursor.columnNames[i]
            /\ Len(item.rows) = Len(r.cursor.rows)
            /\ \A k \in 1..Len(item.rows) :
               \A i \in 1..Len(item.headers) :
                   /\ item.headers[i].name \in DOMAIN item.rows[k]
                   /\ item.rows[k][item.headers[i].name] = r.cursor.rows[k][i]

\* the response is the studio interface
IsStudioPage(r) ==
    /\ r.kind = "response"
    /\ r.body.type = "html"

\* C37: with auth enabled, the studio HTML page is returned only for a GET
\* on the studio route that passed the auth gate: credentials are
\* configured, checkAuth was called and returned null, and the request
\* carries a Basic Authorization header.
C37_StudioPageOnlyPastTheAuthGate ==
    (IsStudioPage(response) /\ ~options.dangerouslyDisableAuth)
    => /\ request.method = "GET"
       /\ EndsWith(request.path, studioRoute)
       /\ options.basicAuth.configured
       /\ authResult = NullSentinel
       /\ ~Falsy(request.authorization)
       /\ StartsWith(request.authorization, BasicPrefix)

C37_Witness ==
    /\ IsStudioPage(response)
    /\ ~options.dangerouslyDisableAuth
    /\ request.authorization = CredentialsHeader(options.basicAuth)

\* C38: toArray(), one(), raw() and rawIterate() leave the read position of
\* next() unchanged: a return of any of them keeps the position, and a
\* next() that returns after k earlier next() returns, whatever other reads
\* came in between, yields row k of the response (counted from 0), or done
\* when k is at least the row count.
C38_OtherReadsKeepThePosition ==
    [][(/\ ~remote'.error.isError
        /\ Len(remote'.log) = Len(remote.log) + 1)
       => LET last == remote'.log[Len(remote'.log)]
              k == Len(NextReturns(remote.log))
          IN  IF last.method = "next"
              THEN IF k < Len(remote.results)
                   THEN /\ last.kind = "value"
                        /\ last.value = remote.results[k + 1]
                   ELSE last.kind = "done"
              ELSE /\ remote'.currentIndex = remote.currentIndex
                   /\ remote'.results = remote.results]_vars

C38_Witness ==
    /\ remote.isResolved
    /\ Len(remote.results) = 2
    /\ Len(remote.log) = 3
    /\ remote.log[1].method = "next"
    /\ remote.log[2].method \in {"toArray", "one", "raw", "rawIterate"}
    /\ remote.log[3].method = "next"
    /\ remote.log[3].kind = "value"
    /\ remote.log[3].value = << <<"rowid", 2>> >>

\* the returns of next() that delivered the r-th row of the cursor
DeliveriesOf(r) ==
    {i \in Returns : /\ remote.log[i].method = "next"
                     /\ remote.log[i].kind = "value"
                     /\ remote.log[i].value = remote.results[r]}

\* the next() calls that were made before the cursor resolved and have not
\* returned yet
PendingFromBeforeResolution ==
    {i \in 1..Len(remote.pending) :
        /\ remote.pending[i].method = "next"
        /\ remote.pending[i].columns # remote.columnNames}

\* C39: however many next() calls were pending when the cursor resolved,
\* and in whatever order they resume, the m calls that have returned got
\* the first min(m, n) of the n rows, each row delivered to exactly one
\* caller and none skipped, and the other m - min(m, n) callers got done.
C39_PendingNextsShareTheRows ==
    (remote.isResolved /\ ~remote.error.isError)
    => LET m == Len(NextReturns(remote.log))
           n == Len(remote.results)
           delivered == IF m < n THEN m ELSE n
       IN  /\ \A r \in 1..n :
                  Cardinality(DeliveriesOf(r)) = IF r <= delivered THEN 1 ELSE 0
           /\ Cardinality({i \in Returns : /\ remote.log[i].method = "next"
                                           /\ remote.log[i].kind = "done"})
                  = m - delivered
           /\ \A i \in Returns :
                  remote.log[i].method = "next"
                  => remote.log[i].kind \in {"value", "done"}

\* three calls were pending when the cursor resolved with two rows; two
\* have returned with a row each, the third is still to resume
C39_Witness ==
    /\ remote.isResolved
    /\ Len(remote.results) = 2
    /\ Len(remote.log) = 2
    /\ Cardinality(DeliveriesOf(1)) = 1
    /\ Cardinality(DeliveriesOf(2)) = 1
    /\ Cardinality(PendingFromBeforeResolution) = 1

\* C40: for every successful response with columns C and rows R, column
\* lists with repeated names included, raw() and rawIterate() return rows
\* equal to R, each with one value per column in column order.  The rows
\* are rebuilt from objects keyed by column name, so this is violated.
C40_RawRoundTripsPositionalRows ==
    Succeeded1
    => \A k \in Returns :
           remote.log[k].method \in {"raw", "rawIterate"}
           => /\ remote.log[k].kind = "value"
              /\ remote.log[k].value = remote.reply.data.result[1].rows

\* the request's path ends with none of the browsable routes
OffRoute ==
    /\ ~EndsWith(request.path, queryRawRoute)
    /\ ~EndsWith(request.path, studioRoute)

\* C32: a POST handled by the studio() helper executes a statement only if
\* the request carries valid Basic credentials, unless auth was explicitly
\* disabled.  The helper checks credentials only when it is given
\* basicAuth, and __studio checks none, so this is violated.
C32_StudioHelperExecutesOnlyWithCredentials ==
    (/\ host.kind = "studio"
     /\ ~options.dangerouslyDisableAuth
     /\ execLog # <<>>)
    => /\ options.basicAuth.configured
       /\ request.authorization = CredentialsHeader(options.basicAuth)

\* C33: BrowsableHandler.fetch and BrowsableDurableObject.fetch, on a host
\* whose SQL storage is set, answer every request whose path matches no
\* browsable route with a 404 response.
C33_OffRouteRequestGets404 ==
    (/\ host.kind \in {"BrowsableHandler", "BrowsableDurableObject"}
     /\ host.sql
     /\ pc = "returned"
     /\ OffRoute)
    => /\ response.kind = "response"
       /\ response.status = 404

C33_Witness ==
    /\ host.kind = "BrowsableDurableObject"
    /\ host.sql
    /\ pc = "returned"
    /\ request.path = <<"studio", "db">>
    /\ request.method = "POST"
    /\ response = Response(404, <<>>, TextBody("Not found"))

\* C35: in a class wrapped by Browsable, with or without its sql property
\* set, a request on a path that is no browsable route is answered by the
\* parent's fetch when the parent has one, and a response of the handler
\* with a status other than 404 is returned as it is, without the parent's
\* fetch.  Without sql the handler answers every request with a 500, which
\* the parent never sees, so this is violated.
C35_ParentAnswersOffRouteRequests ==
    [][(pc = "handled" /\ pc' = "returned")
       => /\ (OffRoute /\ host.parentFetch) => response'.kind = "parent"
          /\ (response.kind = "response" /\ response.status # 404)
                => response' = response]_vars

====
